---- MODULE Spec2Model ----
(***************************************************************************)
(* Model of the cardano-up package manager: the resolver                   *)
(* (pkgmgr/resolver.go), the package manager facade (PackageManager in     *)
(* unnamed/part_009), the package engine (Package in unnamed/part_002) and *)
(* the state store (pkgmgr/state.go).                                      *)
(*                                                                         *)
(* Versions are triples <<major, minor, patch>>.  A dependency or request  *)
(* spec is kept in the form splitPackage returns it: a name, a version     *)
(* spec (a sequence of constraints, <<>> for the empty string) and the     *)
(* option flags.  The container runtime is the set `containers`, the       *)
(* user's bin directory is `binDir`, the configuration directory is        *)
(* `disk`.                                                                 *)
(***************************************************************************)
EXTENDS Integers, Sequences, FiniteSets, TLC

VARIABLES
    Contexts,           \* State.Contexts: name -> Context (with its port registry)
    ActiveContext,      \* State.ActiveContext
    InstalledPackages,  \* State.InstalledPackages (all contexts, in order)
    disk,               \* the YAML files of the configuration directory
    containers,         \* containers known to the container runtime
    binDir,             \* entries of Config.BinDir
    pc,                 \* "idle", or the multi-package operation in progress
    plan,               \* plan entries of that operation not yet processed
    done,               \* plan entries of that operation already processed
    start,              \* State.InstalledPackages and the persisted list when it began
    last                \* observation of the last operation (name, inputs, error)

vars == <<Contexts, ActiveContext, InstalledPackages, disk, containers,
          binDir, pc, plan, done, start, last>>

(***************************************************************************)
(* Bounds of the model.                                                    *)
(***************************************************************************)
\* Install and Upgrade are not started when their plan would make the
\* installed-package list longer than this
MaxInstalled == 3

(***************************************************************************)
(* Small helpers on finite maps.                                           *)
(***************************************************************************)
EmptyMap == [x \in {} |-> x]

MapSet(f, k, v) == [x \in (DOMAIN f) \cup {k} |-> IF x = k THEN v ELSE f[x]]

MapDel(f, k) == [x \in (DOMAIN f) \ {k} |-> f[x]]

Range(s) == {s[i] : i \in DOMAIN s}

RECURSIVE SeqConcat(_)
SeqConcat(ss) == IF ss = <<>> THEN <<>> ELSE Head(ss) \o SeqConcat(Tail(ss))

(***************************************************************************)
(* hashicorp/go-version as used by the resolver.                           *)
(***************************************************************************)
\* Version.Compare on three numeric segments
VersionCompare(a, b) ==
    IF a[1] # b[1] THEN (IF a[1] < b[1] THEN -1 ELSE 1)
    ELSE IF a[2] # b[2] THEN (IF a[2] < b[2] THEN -1 ELSE 1)
    ELSE IF a[3] # b[3] THEN (IF a[3] < b[3] THEN -1 ELSE 1)
    ELSE 0

GreaterThan(a, b) == VersionCompare(a, b) = 1

\* one constraint [op, v] applied to version ver
ConstraintCheck(c, ver) ==
    CASE c.op = "="  -> VersionCompare(ver, c.v) = 0
      [] c.op = "!=" -> VersionCompare(ver, c.v) # 0
      [] c.op = ">"  -> VersionCompare(ver, c.v) = 1
      [] c.op = "<"  -> VersionCompare(ver, c.v) = -1
      [] c.op = ">=" -> VersionCompare(ver, c.v) >= 0
      [] c.op = "<=" -> VersionCompare(ver, c.v) <= 0

\* Constraints.Check: every constraint of the list holds
Check(constraints, ver) ==
    \A i \in DOMAIN constraints : ConstraintCheck(constraints[i], ver)

\* version.NewConstraint(spec) fails on the empty string ("Malformed constraint")
NewConstraintFails(spec) == spec = <<>>

(***************************************************************************)
(* Package manifests.                                                      *)
(***************************************************************************)
\* PackageInstallStep.Condition == "": the step is never skipped
NoCondition == [group |-> "", key |-> "", value |-> ""]

\* the condition `eq .group.key "value"`
Eq(group, key, value) == [group |-> group, key |-> key, value |-> value]

DockerStep(containerName, ports, pullOnly) ==
    [Docker |-> TRUE, File |-> FALSE, ContainerName |-> containerName,
     Ports |-> ports, PullOnly |-> pullOnly, Filename |-> "", Binary |-> FALSE,
     Condition |-> NoCondition]

FileStep(filename, binary) ==
    [Docker |-> FALSE, File |-> TRUE, ContainerName |-> "",
     Ports |-> <<>>, PullOnly |-> FALSE, Filename |-> filename, Binary |-> binary,
     Condition |-> NoCondition]

\* the step with a condition
WithCondition(step, condition) == [step EXCEPT !.Condition = condition]

\* a port spec "[hp:]cp"
PortSpec(hostPort, containerPort) == [hostPort |-> hostPort, containerPort |-> containerPort]

Dep(name, spec) == [name |-> name, spec |-> spec]

C(op, v) == [op |-> op, v |-> v]

\* a manifest without hook scripts
Package(name, ver, deps, steps) ==
    [Name |-> name, Version |-> ver, Dependencies |-> deps, InstallSteps |-> steps,
     HookScripts |-> FALSE]

\* the manifest with pre/post install and uninstall scripts
WithHookScripts(pkg) == [pkg EXCEPT !.HookScripts = TRUE]

\* Package{} (Package.IsEmpty: name and version both absent)
EmptyPackage == Package("", <<0, 0, 0>>, <<>>, <<>>)

PackageIsEmpty(p) == p.Name = "" /\ p.Version = <<0, 0, 0>>

NodeStep == DockerStep("node", <<PortSpec("", "3001")>>, FALSE)

\* PackageManager.AvailablePackages(): the registry of the model
availablePkgs ==
    << WithHookScripts(Package("pkgA", <<1, 0, 2>>, <<>>, <<NodeStep>>)),
       WithHookScripts(Package("pkgA", <<1, 0, 3>>, <<>>, <<NodeStep>>)),
       WithHookScripts(Package("pkgA", <<2, 1, 3>>, <<>>, <<NodeStep>>)),
       Package("pkgB", <<0, 1, 0>>,
               <<Dep("pkgA", <<C("<", <<2, 0, 0>>), C(">=", <<1, 0, 2>>)>>)>>,
               <<FileStep("binB", TRUE)>>),
       Package("pkgB", <<0, 2, 0>>,
               <<Dep("pkgA", <<C("<", <<2, 0, 0>>), C(">=", <<1, 0, 3>>)>>)>>,
               <<FileStep("binB", TRUE),
                 WithCondition(FileStep("fileB", FALSE),
                               Eq("Package", "ShortName", "pkgB")),
                 WithCondition(FileStep("fileZ", FALSE),
                               Eq("Package", "ShortName", "pkgZ"))>>),
       Package("pkgC", <<1, 0, 0>>, <<Dep("pkgA", <<>>)>>,
               <<FileStep("fileC", FALSE),
                 WithCondition(FileStep("fileD", FALSE),
                               Eq("Context", "Name", "default"))>>),
       Package("pkgE", <<1, 0, 0>>,
               <<Dep("pkgA", <<C(">=", <<3, 0, 0>>)>>)>>,
               <<FileStep("fileE", FALSE)>>),
       Package("pkgD", <<1, 0, 0>>,
               <<Dep("pkgB", <<C(">=", <<0, 1, 0>>)>>)>>,
               <<FileStep("fileF", FALSE)>>),
       Package("pkgF", <<1, 0, 0>>, <<>>,
               <<DockerStep("svc", <<>>, FALSE), FileStep("binB", TRUE)>>),
       Package("pkgF", <<1, 1, 0>>, <<>>,
               <<DockerStep("svc", <<>>, FALSE), FileStep("binB", TRUE)>>) >>

PkgNames == {availablePkgs[i].Name : i \in DOMAIN availablePkgs}

(***************************************************************************)
(* Installed-package records.                                              *)
(***************************************************************************)
\* NewInstalledPackage(pkg, context, ...): InstalledTime is time.Now()
NewInstalledPackage(pkg, context) ==
    [Package |-> pkg, Context |-> context, InstalledTime |-> 1]

\* InstalledPackage{}
EmptyInstalled == [Package |-> EmptyPackage, Context |-> "", InstalledTime |-> 0]

\* InstalledPackage.IsEmpty: InstalledTime.IsZero()
InstalledIsEmpty(i) == i.InstalledTime = 0

(***************************************************************************)
(* The resolver (pkgmgr/resolver.go).                                      *)
(***************************************************************************)
\* the dependency specs of the installed packages, in list order
AllDependencies(installedPkgs) ==
    SeqConcat([i \in DOMAIN installedPkgs |-> installedPkgs[i].Package.Dependencies])

\* r.installedConstraints[pkgName] after NewResolver: the constraints of every
\* dependency spec on pkgName, appended in list order (<<>> when there is no key)
installedConstraints(installedPkgs, pkgName) ==
    LET deps == SelectSeq(AllDependencies(installedPkgs), LAMBDA d : d.name = pkgName)
    IN  SeqConcat([i \in DOMAIN deps |-> deps[i].spec])

\* NewResolver: fails when version.NewConstraint rejects the version spec of a
\* dependency of an installed package
NewResolver(installedPkgs, context) ==
    LET deps == AllDependencies(installedPkgs)
    IN  [err |-> IF \E i \in DOMAIN deps : NewConstraintFails(deps[i].spec)
                 THEN "MalformedConstraint" ELSE "",
         context |-> context,
         installedPkgs |-> installedPkgs]

\* Resolver.findInstalled: the first installed package of that name whose
\* version satisfies the version spec (every version when the spec is empty)
findInstalled(r, pkgName, pkgVersionSpec) ==
    LET idxs == {i \in DOMAIN r.installedPkgs :
                    /\ r.installedPkgs[i].Package.Name = pkgName
                    /\ \/ pkgVersionSpec = <<>>
                       \/ Check(pkgVersionSpec, r.installedPkgs[i].Package.Version)}
    IN  IF idxs = {} THEN EmptyInstalled
        ELSE r.installedPkgs[CHOOSE i \in idxs : \A j \in idxs : i <= j]

\* Resolver.findAvailable with extraConstraints = nil (as every caller passes):
\* the version spec and the installed constraints on pkgName both apply
findAvailable(r, pkgName, pkgVersionSpec) ==
    LET constraints == pkgVersionSpec \o installedConstraints(r.installedPkgs, pkgName)
    IN  SelectSeq(availablePkgs,
                  LAMBDA p : p.Name = pkgName /\ Check(constraints, p.Version))

RECURSIVE latestPackageFrom(_, _)
latestPackageFrom(pkgs, ret) ==
    IF pkgs = <<>> THEN ret
    ELSE latestPackageFrom(Tail(pkgs),
            IF PackageIsEmpty(ret) \/ GreaterThan(Head(pkgs).Version, ret.Version)
            THEN Head(pkgs) ELSE ret)

\* variant of latestPackage that keeps the first package of the list
latestPackageFirst(pkgs) == IF pkgs = <<>> THEN EmptyPackage ELSE Head(pkgs)

\* Resolver.latestPackage with constraints = nil
latestPackage(pkgs) == latestPackageFrom(pkgs, EmptyPackage)

\* Resolver.latestAvailablePackage
latestAvailablePackage(r, pkgName, pkgVersionSpec) ==
    latestPackage(findAvailable(r, pkgName, pkgVersionSpec))

ResolverInstallSet(pkg, selected) == [Install |-> pkg, Selected |-> selected]

ResolverUpgradeSet(installed, pkg) == [Installed |-> installed, Upgrade |-> pkg]

RECURSIVE getNeededDepsFrom(_, _, _)
getNeededDepsFrom(r, deps, ret) ==
    IF deps = <<>> THEN [err |-> "", ret |-> ret]
    ELSE LET dep == Head(deps)
             avail == findAvailable(r, dep.name, dep.spec)
         IN  IF ~InstalledIsEmpty(findInstalled(r, dep.name, dep.spec))
             THEN getNeededDepsFrom(r, Tail(deps), ret)
             \* the second lookup repeats the first one, version spec included
             ELSE IF ~InstalledIsEmpty(findInstalled(r, dep.name, dep.spec))
             THEN [err |-> "InstalledNoMatchVersionSpec", ret |-> <<>>]
             ELSE IF Len(avail) = 0
             THEN [err |-> "NoAvailablePackageDependency", ret |-> <<>>]
             ELSE getNeededDepsFrom(r, Tail(deps),
                     Append(ret, ResolverInstallSet(latestPackage(avail), FALSE)))

\* variant of getNeededDeps that never plans a dependency
getNeededDepsNone(r, pkg) == [err |-> "", ret |-> <<>>]

\* Resolver.getNeededDeps
getNeededDeps(r, pkg) == getNeededDepsFrom(r, pkg.Dependencies, <<>>)

RECURSIVE ResolverInstallFrom(_, _, _, _)
ResolverInstallFrom(r, pkgs, i, ret) ==
    IF i > Len(pkgs) THEN [err |-> "", at |-> 0, ret |-> ret]
    ELSE LET latestPkg == latestAvailablePackage(r, pkgs[i].name, pkgs[i].spec)
             needed == getNeededDeps(r, latestPkg)
         IN  IF ~InstalledIsEmpty(findInstalled(r, pkgs[i].name, <<>>))
             THEN [err |-> "PackageAlreadyInstalled", at |-> i, ret |-> <<>>]
             ELSE IF PackageIsEmpty(latestPkg)
             THEN [err |-> "NoAvailablePackage", at |-> i, ret |-> <<>>]
             ELSE IF needed.err # ""
             THEN [err |-> needed.err, at |-> i, ret |-> <<>>]
             ELSE ResolverInstallFrom(r, pkgs, i + 1,
                     ret \o needed.ret \o <<ResolverInstallSet(latestPkg, TRUE)>>)

\* variant of ResolverInstall that emits the plan back to front: the selected
\* package of a group before its dependencies
ResolverInstallSelectedFirst(r, pkgs) ==
    LET res == ResolverInstallFrom(r, pkgs, 1, <<>>)
    IN  [res EXCEPT !.ret = [k \in DOMAIN res.ret |-> res.ret[Len(res.ret) + 1 - k]]]

\* Resolver.Install: the plan, or the error and the index of the spec it is about
ResolverInstall(r, pkgs) == ResolverInstallFrom(r, pkgs, 1, <<>>)

RECURSIVE ResolverUpgradeFrom(_, _, _, _)
ResolverUpgradeFrom(r, pkgs, i, ret) ==
    IF i > Len(pkgs) THEN [err |-> "", at |-> 0, ret |-> ret]
    ELSE LET installedPkg == findInstalled(r, pkgs[i].name, <<>>)
             latestPkg == latestAvailablePackage(r, pkgs[i].name, pkgs[i].spec)
             needed == getNeededDeps(r, latestPkg)
         IN  IF InstalledIsEmpty(installedPkg)
             THEN [err |-> "PackageNotInstalled", at |-> i, ret |-> <<>>]
             ELSE IF PackageIsEmpty(latestPkg)
                     \/ latestPkg.Version = installedPkg.Package.Version
             THEN [err |-> "NoPackageAvailableForUpgrade", at |-> i, ret |-> <<>>]
             ELSE IF needed.err # ""
             THEN [err |-> needed.err, at |-> i, ret |-> <<>>]
             ELSE ResolverUpgradeFrom(r, pkgs, i + 1,
                     ret \o <<ResolverUpgradeSet(installedPkg, latestPkg)>>
                         \o [k \in DOMAIN needed.ret |->
                               ResolverUpgradeSet(
                                   findInstalled(r, needed.ret[k].Install.Name, <<>>),
                                   needed.ret[k].Install)])

\* Resolver.Upgrade
ResolverUpgrade(r, pkgs) == ResolverUpgradeFrom(r, pkgs, 1, <<>>)

\* Resolver.Uninstall of one package: some installed package has a dependency
\* of that name whose version spec is empty or admits the package's version
ResolverUninstall(r, pkg) ==
    LET deps == AllDependencies(r.installedPkgs)
    IN  IF \E i \in DOMAIN deps :
              /\ deps[i].name = pkg.Package.Name
              /\ (deps[i].spec = <<>> \/ Check(deps[i].spec, pkg.Package.Version))
        THEN "UninstallWouldBreakDeps" ELSE ""

(***************************************************************************)
(* The container runtime and the port allocator (unnamed/part_002).        *)
(***************************************************************************)
\* host ports the kernel may hand out to allocateEphemeralPort
HostPorts == {"H1", "H2"}

\* container ports named by the manifests of the registry
ContainerPorts == {"3001"}

\* {name}-{version}-{context}-{containerName}
ContainerFullName(pkg, context, containerName) ==
    <<pkg.Name, pkg.Version, context, containerName>>

ContainerExists(cs, name) == \E c \in cs : c.name = name

\* formatPortSpec: the host port is written whenever it is known
formatPortSpec(hostPort, containerPort) == PortSpec(hostPort, containerPort)

\* port specs that nat.ParsePortSpec expands to more than one mapping
PortRanges == {"3001-3002"}

\* len(portMappings) after nat.ParsePortSpec
Mappings(rawPort) == IF rawPort.containerPort \in PortRanges THEN 2 ELSE 1

\* variant of ensureHostPortMapping that forgets the remembered host port
ensureHostPortMappingFresh(rawPort, registered, allocated, eph) ==
    LET containerPort == rawPort.containerPort
        hostPort == IF rawPort.hostPort = "" THEN eph[containerPort]
                    ELSE rawPort.hostPort
    IN  IF Mappings(rawPort) # 1
        THEN [err |-> "RangesNotSupported", port |-> PortSpec("", ""),
              allocated |-> allocated]
        ELSE IF containerPort = ""
        THEN [err |-> "", port |-> rawPort, allocated |-> allocated]
        ELSE [err |-> "", port |-> formatPortSpec(hostPort, containerPort),
              allocated |-> MapSet(allocated, containerPort, hostPort)]

\* variant of ensureHostPortMapping that prefers the remembered host port to
\* the one of the port spec and always records the chosen port
ensureHostPortMappingRemembered(rawPort, registered, allocated, eph) ==
    LET containerPort == rawPort.containerPort
        remembered == IF containerPort \in DOMAIN registered
                         /\ registered[containerPort] # ""
                      THEN registered[containerPort] ELSE rawPort.hostPort
        hostPort == IF remembered = "" THEN eph[containerPort] ELSE remembered
    IN  IF Mappings(rawPort) # 1
        THEN [err |-> "RangesNotSupported", port |-> PortSpec("", ""),
              allocated |-> allocated]
        ELSE IF containerPort = ""
        THEN [err |-> "", port |-> rawPort, allocated |-> allocated]
        ELSE [err |-> "", port |-> formatPortSpec(hostPort, containerPort),
              allocated |-> MapSet(allocated, containerPort, hostPort)]

\* ensureHostPortMapping(rawPort, registered, allocated); eph is what
\* allocateEphemeralPort would return for each container port
ensureHostPortMapping(rawPort, registered, allocated, eph) ==
    LET containerPort == rawPort.containerPort
        remembered == IF rawPort.hostPort = ""
                         /\ containerPort \in DOMAIN registered
                         /\ registered[containerPort] # ""
                      THEN registered[containerPort] ELSE rawPort.hostPort
        hostPort == IF remembered = "" THEN eph[containerPort] ELSE remembered
    IN  IF Mappings(rawPort) # 1
        THEN [err |-> "RangesNotSupported", port |-> PortSpec("", ""),
              allocated |-> allocated]
        ELSE IF containerPort = ""
        THEN [err |-> "", port |-> rawPort, allocated |-> allocated]
        ELSE [err |-> "", port |-> formatPortSpec(hostPort, containerPort),
              allocated |-> IF containerPort \in DOMAIN allocated
                               /\ allocated[containerPort] # ""
                            THEN allocated
                            ELSE MapSet(allocated, containerPort, hostPort)]

\* the port list of PackageInstallStepDocker.install: every port spec of the
\* step passed through ensureHostPortMapping (no manifest of the registry has
\* a port range, so that none of the calls fails)
StepPorts(step, registered, eph) ==
    [i \in DOMAIN step.Ports |->
        ensureHostPortMapping(step.Ports[i], registered, EmptyMap, eph).port]

\* the container DockerService.Create/Start makes: its bindings map each
\* container port to the host port of its port spec
NewContainer(name, ports) ==
    [name |-> name,
     ports |-> [cp \in {ports[i].containerPort : i \in DOMAIN ports} |->
                  ports[CHOOSE i \in DOMAIN ports : ports[i].containerPort = cp
                      /\ \A j \in DOMAIN ports :
                            ports[j].containerPort = cp => i <= j].hostPort]]

\* the "0.0.0.0:hp:cp" strings DockerService.refresh builds, as Package.install
\* splits them again: container port -> host port
ContainerPortsOf(cs, name) == (CHOOSE c \in cs : c.name = name).ports

(***************************************************************************)
(* The package engine (Package in unnamed/part_002).                       *)
(***************************************************************************)
\* the longest list of install steps in the registry
MaxSteps ==
    CHOOSE n \in {Len(availablePkgs[i].InstallSteps) : i \in DOMAIN availablePkgs} :
        \A i \in DOMAIN availablePkgs : Len(availablePkgs[i].InstallSteps) <= n

\* variant of Preflight that looks only at the steps with a container to run
PreflightServicesOnly(pkg, context, cs) ==
    LET bad(i) == LET st == pkg.InstallSteps[i]
                  IN  \/ st.Docker /\ st.File
                      \/ st.Docker /\ ~st.PullOnly /\ st.Condition = NoCondition
                            /\ ContainerExists(cs,
                                  ContainerFullName(pkg, context, st.ContainerName))
        idxs == {i \in DOMAIN pkg.InstallSteps : bad(i)}
        first == CHOOSE i \in idxs : \A j \in idxs : i <= j
    IN  IF idxs = {} THEN ""
        ELSE IF pkg.InstallSteps[first].Docker /\ pkg.InstallSteps[first].File
        THEN "MultipleInstallMethods" ELSE "ContainerAlreadyExists"

\* the pre-flight loop of Package.install: the error of the first step that
\* has one, "" when every step passes
Preflight(pkg, context, cs) ==
    LET bad(i) == LET st == pkg.InstallSteps[i]
                  IN  \/ st.Docker /\ st.File
                      \/ st.Docker /\ ContainerExists(cs,
                              ContainerFullName(pkg, context, st.ContainerName))
        idxs == {i \in DOMAIN pkg.InstallSteps : bad(i)}
        first == CHOOSE i \in idxs : \A j \in idxs : i <= j
    IN  IF idxs = {} THEN ""
        ELSE IF pkg.InstallSteps[first].Docker /\ pkg.InstallSteps[first].File
        THEN "MultipleInstallMethods" ELSE "ContainerAlreadyExists"

\* what evaluating a condition that reads a variable the template does not
\* have can give: an error, or a value that is not equal to anything
MissingKey == {"error", "false"}

\* Template.EvaluateCondition(condition, nil) against the template's
\* variables: "true" or "false", or, when the condition reads a variable the
\* template does not have, what text/template makes of it (missing: "error"
\* or "false")
EvaluateCondition(condition, tmplVars, missing) ==
    IF condition.group \notin DOMAIN tmplVars THEN missing
    ELSE IF condition.key \notin DOMAIN tmplVars[condition.group] THEN missing
    ELSE IF tmplVars[condition.group][condition.key] = condition.value
    THEN "true" ELSE "false"

\* the variables PackageManager.initTemplate gives the template
ManagerTemplateVars(context) == [Context |-> [Name |-> context]]

\* the variables of the template inside Package.install: Package, Paths and
\* System are added to the manager's
InstallTemplateVars(pkg, context) ==
    [Context |-> [Name |-> context],
     Package |-> [ShortName |-> pkg.Name, Version |-> pkg.Version],
     Paths |-> [BinDir |-> "bin"],
     System |-> [OS |-> "linux"]]

\* what a verb did, in order: the package directories created, a hook script
\* run, a step dispatched, an image or a directory removed
Event(ev, i) == [ev |-> ev, i |-> i]

\* the indices of the steps an event list dispatched, in order
DispatchedSteps(events) ==
    LET steps == SelectSeq(events, LAMBDA e : e.ev = "step")
    IN  [k \in DOMAIN steps |-> steps[k].i]

\* the install loop of Package.install from step i on; step failAt fails in
\* the runtime (image pull, container create or start, file write)
RECURSIVE InstallStepsFrom(_, _, _, _, _, _, _, _)
InstallStepsFrom(pkg, context, registeredPorts, eph, failAt, i, cs, events) ==
    IF i > Len(pkg.InstallSteps) THEN [err |-> "", containers |-> cs, events |-> events]
    ELSE LET st == pkg.InstallSteps[i]
             ok == IF st.Condition = NoCondition THEN "true"
                   ELSE EvaluateCondition(st.Condition,
                                          InstallTemplateVars(pkg, context), "error")
             stepPorts == IF st.ContainerName \in DOMAIN registeredPorts
                          THEN registeredPorts[st.ContainerName] ELSE EmptyMap
         IN  IF ok = "error"
             THEN [err |-> "InstallStepCondition", containers |-> cs,
                   events |-> events]
             ELSE IF ok = "false"
             THEN InstallStepsFrom(pkg, context, registeredPorts, eph, failAt,
                                   i + 1, cs, events)
             ELSE IF ~st.Docker /\ ~st.File
             THEN [err |-> "NoInstallMethods", containers |-> cs, events |-> events]
             ELSE IF failAt = i
             THEN [err |-> "StepFailed", containers |-> cs,
                   events |-> Append(events, Event("step", i))]
             ELSE InstallStepsFrom(pkg, context, registeredPorts, eph, failAt, i + 1,
                     IF st.Docker /\ ~st.PullOnly
                     THEN cs \cup {NewContainer(
                                     ContainerFullName(pkg, context, st.ContainerName),
                                     StepPorts(st, stepPorts, eph))}
                     ELSE cs,
                     Append(events, Event("step", i)))

\* Package.services: the docker steps that are not pull-only
ServiceSteps(pkg) ==
    SelectSeq(pkg.InstallSteps, LAMBDA st : st.Docker /\ ~st.PullOnly)

\* the port capture of Package.install: service name -> container port -> host port
UsedPorts(pkg, context, cs) ==
    LET svcs == ServiceSteps(pkg)
    IN  [n \in {svcs[i].ContainerName : i \in DOMAIN svcs} |->
            ContainerPortsOf(cs, ContainerFullName(pkg, context, n))]

\* Package.install(cfg, context, opts, runHooks, registeredPorts) against the
\* containers cs: the error, the containers afterwards, the used ports and
\* what was done
PackageInstall(pkg, context, registeredPorts, cs, eph, failAt, runHooks) ==
    LET pre == Preflight(pkg, context, cs)
        hooks == runHooks /\ pkg.HookScripts
        before == IF hooks
                  THEN <<Event("mkdirAll", 0), Event("preInstallScript", 0)>>
                  ELSE <<Event("mkdirAll", 0)>>
        run == InstallStepsFrom(pkg, context, registeredPorts, eph, failAt, 1, cs,
                                before)
        after == IF hooks THEN Append(run.events, Event("postInstallScript", 0))
                 ELSE run.events
        svcs == ServiceSteps(pkg)
    IN  IF pre # ""
        THEN [err |-> pre, containers |-> cs, usedPorts |-> EmptyMap,
              events |-> <<>>]
        ELSE IF run.err # ""
        THEN [err |-> run.err, containers |-> run.containers, usedPorts |-> EmptyMap,
              events |-> run.events]
        ELSE IF \E i \in DOMAIN svcs :
                   ~ContainerExists(run.containers,
                        ContainerFullName(pkg, context, svcs[i].ContainerName))
        THEN [err |-> "OperationFailed", containers |-> run.containers,
              usedPorts |-> EmptyMap, events |-> run.events]
        ELSE [err |-> "", containers |-> run.containers,
              usedPorts |-> UsedPorts(pkg, context, run.containers),
              events |-> after]

\* the reverse loop of Package.uninstall from step i down; with fail the
\* runtime refuses to stop or remove the first container it is asked to
RECURSIVE UninstallStepsFrom(_, _, _, _, _, _, _, _)
UninstallStepsFrom(pkg, context, i, cs, fail, keepData, missing, events) ==
    IF i = 0 THEN [err |-> "", containers |-> cs, events |-> events]
    ELSE LET st == pkg.InstallSteps[i]
             ok == IF st.Condition = NoCondition THEN "true"
                   ELSE EvaluateCondition(st.Condition,
                                          ManagerTemplateVars(context), missing)
             name == ContainerFullName(pkg, context, st.ContainerName)
             dispatched == Append(events, Event("step", i))
             cleaned == IF st.Docker /\ ~keepData
                        THEN Append(dispatched, Event("removeImage", i))
                        ELSE dispatched
         IN  IF ok = "error"
             THEN [err |-> "InstallStepCondition", containers |-> cs,
                   events |-> events]
             ELSE IF ok = "false"
             THEN UninstallStepsFrom(pkg, context, i - 1, cs, fail, keepData,
                                     missing, events)
             ELSE IF st.Docker /\ st.File
             THEN [err |-> "MultipleInstallMethods", containers |-> cs,
                   events |-> events]
             ELSE IF ~st.Docker /\ ~st.File
             THEN [err |-> "NoInstallMethods", containers |-> cs, events |-> events]
             ELSE IF st.Docker /\ ~st.PullOnly /\ ContainerExists(cs, name)
             THEN IF fail THEN [err |-> "StepFailed", containers |-> cs,
                                events |-> dispatched]
                  ELSE UninstallStepsFrom(pkg, context, i - 1,
                          {c \in cs : c.name # name}, fail, keepData, missing,
                          cleaned)
             ELSE UninstallStepsFrom(pkg, context, i - 1, cs, fail, keepData,
                                     missing, cleaned)

\* variant of PackageUninstall that removes images, cache and data directories
\* whatever keepData says
PackageUninstallRemovingData(pkg, context, cs, fail, keepData, runHooks, missing) ==
    LET hooks == runHooks /\ pkg.HookScripts
        before == IF hooks THEN <<Event("preUninstallScript", 0)>> ELSE <<>>
        run == UninstallStepsFrom(pkg, context, Len(pkg.InstallSteps), cs, fail,
                                  FALSE, missing, before)
        dirs == run.events \o <<Event("removeCacheDir", 0),
                                Event("removeDataDir", 0)>>
    IN  IF run.err # "" THEN run
        ELSE [err |-> "", containers |-> run.containers,
              events |-> IF hooks THEN Append(dirs, Event("postUninstallScript", 0))
                         ELSE dirs]

\* variant of PackageUninstall that goes through the steps from the first to
\* the last
PackageUninstallAscending(pkg, context, cs, fail, keepData, runHooks, missing) ==
    LET hooks == runHooks /\ pkg.HookScripts
        before == IF hooks THEN <<Event("preUninstallScript", 0)>> ELSE <<>>
        down == UninstallStepsFrom(pkg, context, Len(pkg.InstallSteps), cs, fail,
                                   keepData, missing, <<>>)
        run == [down EXCEPT !.events =
                   before \o [k \in DOMAIN down.events |->
                                 down.events[Len(down.events) + 1 - k]]]
        dirs == IF keepData THEN run.events
                ELSE run.events \o <<Event("removeCacheDir", 0),
                                     Event("removeDataDir", 0)>>
    IN  IF run.err # "" THEN run
        ELSE [err |-> "", containers |-> run.containers,
              events |-> IF hooks THEN Append(dirs, Event("postUninstallScript", 0))
                         ELSE dirs]

\* Package.uninstall(cfg, context, keepData, runHooks) against the containers
\* cs: the error, the containers afterwards and what was done
PackageUninstall(pkg, context, cs, fail, keepData, runHooks, missing) ==
    LET hooks == runHooks /\ pkg.HookScripts
        before == IF hooks THEN <<Event("preUninstallScript", 0)>> ELSE <<>>
        run == UninstallStepsFrom(pkg, context, Len(pkg.InstallSteps), cs, fail,
                                  keepData, missing, before)
        dirs == IF keepData THEN run.events
                ELSE run.events \o <<Event("removeCacheDir", 0),
                                     Event("removeDataDir", 0)>>
    IN  IF run.err # "" THEN run
        ELSE [err |-> "", containers |-> run.containers,
              events |-> IF hooks THEN Append(dirs, Event("postUninstallScript", 0))
                         ELSE dirs]

NoEntry == [kind |-> "absent", target |-> <<>>]

RegularFile == [kind |-> "regular", target |-> <<>>]

Symlink(pkg, context) == [kind |-> "symlink", target |-> <<pkg.Name, pkg.Version, context>>]

\* a symlink in the bin directory that the package manager did not write
ForeignSymlink == [kind |-> "symlink", target |-> <<"elsewhere">>]

\* variant of FileStepActivate that replaces whatever is at the bin entry
FileStepActivateOverwriting(st, pkg, context, bin) ==
    IF ~st.Binary THEN [err |-> "", bin |-> bin]
    ELSE [err |-> "", bin |-> [bin EXCEPT ![st.Filename] = Symlink(pkg, context)]]

\* PackageInstallStepFile.activate: for a binary, Lstat of the bin entry; a
\* symlink there is removed, any other entry is refused, and then the symlink
\* to the package's file is written
FileStepActivate(st, pkg, context, bin) ==
    IF ~st.Binary THEN [err |-> "", bin |-> bin]
    ELSE IF bin[st.Filename].kind \notin {"absent", "symlink"}
    THEN [err |-> "WillNotOverwrite", bin |-> bin]
    ELSE [err |-> "", bin |-> [bin EXCEPT ![st.Filename] = Symlink(pkg, context)]]

\* Package.activate from step i on: a binary file step puts a symlink into the
\* bin directory unless a non-symlink entry is there, which ends the loop
RECURSIVE ActivateFrom(_, _, _, _, _, _)
ActivateFrom(pkg, context, i, bin, missing, events) ==
    IF i > Len(pkg.InstallSteps) THEN [err |-> "", bin |-> bin, events |-> events]
    ELSE LET st == pkg.InstallSteps[i]
             ok == IF st.Condition = NoCondition THEN "true"
                   ELSE EvaluateCondition(st.Condition,
                                          ManagerTemplateVars(context), missing)
             dispatched == Append(events, Event("step", i))
         IN  IF ok = "error"
             THEN [err |-> "InstallStepCondition", bin |-> bin, events |-> events]
             ELSE IF ok = "false"
             THEN ActivateFrom(pkg, context, i + 1, bin, missing, events)
             ELSE IF ~st.Docker /\ ~st.File
             THEN [err |-> "NoInstallMethods", bin |-> bin, events |-> events]
             ELSE IF st.File /\ ~st.Docker
             THEN LET r == FileStepActivate(st, pkg, context, bin)
                  IN  IF r.err # ""
                      THEN [err |-> r.err, bin |-> r.bin, events |-> dispatched]
                      ELSE ActivateFrom(pkg, context, i + 1, r.bin, missing,
                                        dispatched)
             ELSE ActivateFrom(pkg, context, i + 1, bin, missing, dispatched)

\* Package.activate: the bin directory afterwards (its error is only logged)
PackageActivate(pkg, context, bin, missing) ==
    ActivateFrom(pkg, context, 1, bin, missing, <<>>).bin

\* Package.deactivate from step i on: os.Remove of the bin entry of every
\* binary file step, up to the first step that returns an error
RECURSIVE DeactivateFrom(_, _, _, _, _, _)
DeactivateFrom(pkg, context, i, bin, missing, events) ==
    IF i > Len(pkg.InstallSteps) THEN [err |-> "", bin |-> bin, events |-> events]
    ELSE LET st == pkg.InstallSteps[i]
             ok == IF st.Condition = NoCondition THEN "true"
                   ELSE EvaluateCondition(st.Condition,
                                          ManagerTemplateVars(context), missing)
             dispatched == Append(events, Event("step", i))
         IN  IF ok = "error"
             THEN [err |-> "InstallStepCondition", bin |-> bin, events |-> events]
             ELSE IF ok = "false"
             THEN DeactivateFrom(pkg, context, i + 1, bin, missing, events)
             ELSE IF ~st.Docker /\ ~st.File
             THEN [err |-> "NoInstallMethods", bin |-> bin, events |-> events]
             ELSE IF st.File /\ ~st.Docker /\ st.Binary
             THEN DeactivateFrom(pkg, context, i + 1,
                     [bin EXCEPT ![st.Filename] = NoEntry], missing, dispatched)
             ELSE DeactivateFrom(pkg, context, i + 1, bin, missing, dispatched)

\* Package.deactivate: the bin directory afterwards (its error is only logged)
PackageDeactivate(pkg, context, bin, missing) ==
    DeactivateFrom(pkg, context, 1, bin, missing, <<>>).bin

(***************************************************************************)
(* The state store (pkgmgr/state.go) and contexts.                         *)
(***************************************************************************)
defaultContextName == "default"

\* Context{}: no network, no remembered ports
ZeroContext == [Network |-> "", NetworkMagic |-> 0, PortRegistry |-> EmptyMap]

defaultContext == ZeroContext

\* names a caller may give a context
ContextNames == {"default", "c1"}

\* ouroboros.NetworkByName: the networks it knows, with their magic
KnownNetworks == {"preprod"}

NetworkMagicOf(network) == IF network = "preprod" THEN 1 ELSE 0

\* network names a caller may pass; "bogus" is unknown to NetworkByName
NetworkInputs == {"", "preprod", "bogus"}

\* the files of the configuration directory in the order State.Save writes
\* them: contexts.yaml, active_context.yaml, installed_packages.yaml and
\* port_registry.yaml
StateFiles == <<"Contexts", "ActiveContext", "InstalledPackages", "PortRegistry">>

\* a configuration directory without files; Corrupt holds the files whose
\* content is not YAML, Migrated tells whether a migration of the legacy port
\* registry has written port_registry.yaml
EmptyDisk ==
    [Contexts |-> EmptyMap, ActiveContext |-> "", InstalledPackages |-> <<>>,
     PortRegistry |-> EmptyMap, Corrupt |-> {}, Migrated |-> FALSE]

\* State.migrateLegacyPortRegistry: the portRegistry of every context of
\* contexts.yaml that has one, keyed by context name
migrateLegacyPortRegistry(d) ==
    [c \in {n \in DOMAIN d.Contexts : DOMAIN d.Contexts[n].PortRegistry # {}} |->
        d.Contexts[c].PortRegistry]

\* variant of loadPortRegistry that migrates on every load
loadPortRegistryAlways(d) ==
    IF DOMAIN migrateLegacyPortRegistry(d) # {}
    THEN migrateLegacyPortRegistry(d)
    ELSE d.PortRegistry

\* State.loadPortRegistry: State.PortRegistry after port_registry.yaml was read
\* and, when that gave an empty registry, the legacy data was migrated; the
\* migration writes the registry back, so that it is the file's content too
loadPortRegistry(d) ==
    IF DOMAIN d.PortRegistry = {}
    THEN migrateLegacyPortRegistry(d)
    ELSE d.PortRegistry

\* State.Load on a fresh State: missing or empty files give the default context
Load(d) ==
    [Contexts |-> IF DOMAIN d.Contexts = {}
                  THEN MapSet(EmptyMap, defaultContextName, defaultContext)
                  ELSE d.Contexts,
     ActiveContext |-> IF d.ActiveContext = "" THEN defaultContextName
                       ELSE d.ActiveContext,
     InstalledPackages |-> d.InstalledPackages]

\* State.Save: contexts, active context, installed packages and the port
\* registry State.Load left in memory are written
Save(d, ctxs, active, installed) ==
    [Contexts |-> ctxs, ActiveContext |-> active, InstalledPackages |-> installed,
     PortRegistry |-> d.PortRegistry, Corrupt |-> {}, Migrated |-> d.Migrated]

\* what os.WriteFile can leave of a file when the process dies inside it: the
\* file truncated to nothing, or a piece of the new content that is not YAML
TornOutcomes == {"empty", "partial"}

\* State.Save when the process dies while saveFile writes file number k: the
\* files before it have their new content, the files after it their old one
SaveCrashing(d, ctxs, active, installed, k, torn) ==
    LET new == Save(d, ctxs, active, installed)
        content(i) == IF i < k THEN new[StateFiles[i]]
                      ELSE IF i > k THEN d[StateFiles[i]]
                      ELSE EmptyDisk[StateFiles[i]]
    IN  [Contexts |-> content(1), ActiveContext |-> content(2),
         InstalledPackages |-> content(3), PortRegistry |-> content(4),
         Corrupt |-> IF torn = "partial" THEN {StateFiles[k]} ELSE {},
         Migrated |-> d.Migrated]

\* p.state.Contexts[name], the zero Context when the key is missing
ContextOf(ctxs, name) == IF name \in DOMAIN ctxs THEN ctxs[name] ELSE ZeroContext

\* variant of InstalledIn that returns the records of every context
InstalledInAny(installed, context) == installed

\* PackageManager.InstalledPackages: the records of the active context
InstalledIn(installed, context) ==
    SelectSeq(installed, LAMBDA i : i.Context = context)

\* PackageManager.registeredPorts (a nil result is the empty map)
registeredPorts(ctxs, contextName, pkgName) ==
    IF contextName \notin DOMAIN ctxs THEN EmptyMap
    ELSE IF pkgName \in DOMAIN ctxs[contextName].PortRegistry
    THEN ctxs[contextName].PortRegistry[pkgName]
    ELSE EmptyMap

\* PackageManager.setRegisteredPorts: the contexts map afterwards
setRegisteredPorts(ctxs, contextName, pkgName, ports) ==
    LET context == ContextOf(ctxs, contextName)
    IN  MapSet(ctxs, contextName,
            [context EXCEPT !.PortRegistry =
                IF DOMAIN ports = {} THEN MapDel(context.PortRegistry, pkgName)
                ELSE MapSet(context.PortRegistry, pkgName, ports)])

\* the bookkeeping half of PackageManager.uninstallPackage: every record with
\* the context, name and version of the uninstalled one is dropped
RemoveInstalled(installed, uninstallPkg) ==
    SelectSeq(installed, LAMBDA i :
        ~(/\ i.Context = uninstallPkg.Context
          /\ i.Package.Name = uninstallPkg.Package.Name
          /\ i.Package.Version = uninstallPkg.Package.Version))

\* PackageManager.updateContext: the error and the contexts map afterwards
updateContext(ctxs, name, newContext) ==
    IF name \notin DOMAIN ctxs
    THEN [err |-> "ContextNotExist", ctxs |-> ctxs]
    ELSE IF ctxs[name].Network # "" /\ newContext.Network # ctxs[name].Network
    THEN [err |-> "ContextNoChangeNetwork", ctxs |-> ctxs]
    ELSE IF ctxs[name].Network = "" /\ newContext.Network # ""
            /\ newContext.Network \notin KnownNetworks
    THEN [err |-> "UnknownNetwork", ctxs |-> ctxs]
    ELSE [err |-> "",
          ctxs |-> [ctxs EXCEPT ![name] =
                      IF ctxs[name].Network = "" /\ newContext.Network # ""
                      THEN [newContext EXCEPT
                               !.NetworkMagic = NetworkMagicOf(newContext.Network)]
                      ELSE newContext]]

(***************************************************************************)
(* Observations the properties are stated on.                              *)
(***************************************************************************)
\* the port registry: context -> package -> service -> container port -> host port
PortRegistryOf(ctxs) == [c \in DOMAIN ctxs |-> ctxs[c].PortRegistry]

\* installed-package list and port registry, in memory and on disk
Snapshot ==
    [mem |-> InstalledPackages, reg |-> PortRegistryOf(Contexts),
     dmem |-> disk.InstalledPackages, dreg |-> PortRegistryOf(disk.Contexts)]

NoStart == [op |-> ""]

\* the host-port bindings of the package's containers that exist:
\* service name -> container port -> host port
BoundPorts(pkg, context, cs) ==
    LET svcs == ServiceSteps(pkg)
    IN  [n \in {svcs[i].ContainerName : i \in
                  {j \in DOMAIN svcs : ContainerExists(cs,
                      ContainerFullName(pkg, context, svcs[j].ContainerName))}} |->
            ContainerPortsOf(cs, ContainerFullName(pkg, context, n))]

\* specs a caller may request: a name, optionally with a version spec
RequestSpecs ==
    {Dep(n, <<>>) : n \in {"pkgA", "pkgB", "pkgC", "pkgE", "pkgZ"}}
        \cup {Dep("pkgA", <<C("<", <<2, 0, 0>>)>>),
              Dep("pkgB", <<C("<", <<0, 2, 0>>)>>)}

\* the spec lists a caller may pass: every single spec, and two specs whose
\* packages share a dependency
Requests ==
    {<<q>> : q \in RequestSpecs}
        \cup {<<Dep("pkgA", <<>>), Dep("pkgC", <<>>)>>}

\* the outcomes of the environment that can make a difference to a verb on
\* pkg: ephemeral host ports and a failing container only with a service, the
\* reading of a missing template variable only with a conditional step
EphemeralPorts(pkg) ==
    IF ServiceSteps(pkg) = <<>> THEN {[cp \in ContainerPorts |-> "H1"]}
    ELSE [ContainerPorts -> HostPorts]

ContainerFailures(pkg) == IF ServiceSteps(pkg) = <<>> THEN {FALSE} ELSE BOOLEAN

MissingKeyFor(pkg) ==
    IF \E i \in DOMAIN pkg.InstallSteps :
           /\ pkg.InstallSteps[i].Condition # NoCondition
           /\ pkg.InstallSteps[i].Condition.group
                  \notin DOMAIN ManagerTemplateVars(ActiveContext)
    THEN MissingKey ELSE {"error"}

(***************************************************************************)
(* The package manager (PackageManager in unnamed/part_009).               *)
(***************************************************************************)
Init ==
    /\ disk = EmptyDisk
    /\ Contexts = Load(EmptyDisk).Contexts
    /\ ActiveContext = Load(EmptyDisk).ActiveContext
    /\ InstalledPackages = Load(EmptyDisk).InstalledPackages
    /\ containers = {}
    /\ binDir = [f \in {"binB"} |-> NoEntry]
    /\ pc = "idle"
    /\ plan = <<>>
    /\ done = <<>>
    /\ start = NoStart
    /\ last = [op |-> "Load", err |-> ""]

\* variant of Install without the check of the active context's network
InstallWithoutNetworkCheck(pkgs) ==
    /\ pc = "idle"
    /\ LET r == NewResolver(InstalledIn(InstalledPackages, ActiveContext), ActiveContext)
           res == ResolverInstall(r, pkgs)
           err == IF r.err # "" THEN r.err ELSE res.err
       IN  /\ err = "" => Len(InstalledPackages) + Len(res.ret) <= MaxInstalled
           /\ last' = [op |-> "Install", pkgs |-> pkgs, err |-> err,
                       at |-> IF err = res.err THEN res.at ELSE 0]
           /\ IF err = ""
              THEN /\ pc' = "install"
                   /\ plan' = res.ret
                   /\ start' = [op |-> "Install", pkgs |-> pkgs,
                                context |-> ActiveContext,
                                mem |-> InstalledPackages,
                                reg |-> PortRegistryOf(Contexts),
                                dmem |-> disk.InstalledPackages]
              ELSE /\ pc' = "idle"
                   /\ plan' = <<>>
                   /\ start' = NoStart
           /\ done' = <<>>
           /\ UNCHANGED <<Contexts, ActiveContext, InstalledPackages, disk,
                          containers, binDir>>

\* PackageManager.Install up to the plan: network check, NewResolver and
\* Resolver.Install
Install(pkgs) ==
    /\ pc = "idle"
    /\ LET r == NewResolver(InstalledIn(InstalledPackages, ActiveContext), ActiveContext)
           res == ResolverInstall(r, pkgs)
           err == IF ContextOf(Contexts, ActiveContext).Network = ""
                  THEN "ContextInstallNoNetwork"
                  ELSE IF r.err # "" THEN r.err ELSE res.err
       IN  /\ err = "" => Len(InstalledPackages) + Len(res.ret) <= MaxInstalled
           /\ last' = [op |-> "Install", pkgs |-> pkgs, err |-> err,
                       at |-> IF err = res.err THEN res.at ELSE 0]
           /\ IF err = ""
              THEN /\ pc' = "install"
                   /\ plan' = res.ret
                   /\ start' = [op |-> "Install", pkgs |-> pkgs,
                                context |-> ActiveContext,
                                mem |-> InstalledPackages,
                                reg |-> PortRegistryOf(Contexts),
                                dmem |-> disk.InstalledPackages]
              ELSE /\ pc' = "idle"
                   /\ plan' = <<>>
                   /\ start' = NoStart
           /\ done' = <<>>
           /\ UNCHANGED <<Contexts, ActiveContext, InstalledPackages, disk,
                          containers, binDir>>

\* one iteration of the loop of PackageManager.Install: install the package,
\* record it, remember its ports, save, activate
InstallItem ==
    /\ pc = "install"
    /\ \E eph \in EphemeralPorts(Head(plan).Install),
          failAt \in 0..Len(Head(plan).Install.InstallSteps),
          missing \in MissingKeyFor(Head(plan).Install) :
        LET e == Head(plan)
            reg == registeredPorts(Contexts, ActiveContext, e.Install.Name)
            res == PackageInstall(e.Install, ActiveContext, reg, containers, eph,
                                  failAt, TRUE)
            installed == Append(InstalledPackages,
                                NewInstalledPackage(e.Install, ActiveContext))
            ctxs == setRegisteredPorts(Contexts, ActiveContext, e.Install.Name,
                                       res.usedPorts)
        IN  IF res.err # ""
            THEN /\ containers' = res.containers
                 /\ pc' = "idle"
                 /\ plan' = <<>>
                 /\ last' = [op |-> "InstallItem", pkg |-> e.Install,
                             err |-> res.err, pre |-> Snapshot,
                             events |-> res.events]
                 /\ UNCHANGED <<Contexts, ActiveContext, InstalledPackages, disk,
                                binDir, done, start>>
            ELSE /\ containers' = res.containers
                 /\ InstalledPackages' = installed
                 /\ Contexts' = ctxs
                 /\ disk' = Save(disk, ctxs, ActiveContext, installed)
                 /\ binDir' = PackageActivate(e.Install, ActiveContext, binDir,
                                              missing)
                 /\ plan' = Tail(plan)
                 /\ done' = Append(done, e)
                 /\ pc' = IF Tail(plan) = <<>> THEN "idle" ELSE "install"
                 /\ last' = [op |-> "InstallItem", pkg |-> e.Install,
                             err |-> "", pre |-> <<>>, events |-> res.events,
                             bin |-> binDir,
                             activate |-> ActivateFrom(e.Install, ActiveContext, 1,
                                                       binDir, missing, <<>>).err]
                 /\ UNCHANGED <<ActiveContext, start>>

\* PackageManager.Upgrade up to the plan: NewResolver and Resolver.Upgrade
Upgrade(pkgs) ==
    /\ pc = "idle"
    /\ LET r == NewResolver(InstalledIn(InstalledPackages, ActiveContext), ActiveContext)
           res == ResolverUpgrade(r, pkgs)
           err == IF r.err # "" THEN r.err ELSE res.err
       IN  /\ err = "" => Len(InstalledPackages) + Len(res.ret) <= MaxInstalled
           /\ last' = [op |-> "Upgrade", pkgs |-> pkgs, err |-> err,
                       at |-> IF r.err = "" THEN res.at ELSE 0]
           /\ IF err = ""
              THEN /\ pc' = "upgrade"
                   /\ plan' = res.ret
                   /\ start' = [op |-> "Upgrade", pkgs |-> pkgs,
                                context |-> ActiveContext,
                                mem |-> InstalledPackages,
                                reg |-> PortRegistryOf(Contexts),
                                dmem |-> disk.InstalledPackages]
              ELSE /\ pc' = "idle"
                   /\ plan' = <<>>
                   /\ start' = NoStart
           /\ done' = <<>>
           /\ UNCHANGED <<Contexts, ActiveContext, InstalledPackages, disk,
                          containers, binDir>>

\* one iteration of the loop of PackageManager.Upgrade: deactivate and
\* uninstall the old version, install the new one with the remembered ports,
\* record it, save, activate
UpgradeItem ==
    /\ pc = "upgrade"
    /\ \E eph \in EphemeralPorts(Head(plan).Upgrade),
          failAt \in 0..Len(Head(plan).Upgrade.InstallSteps),
          failUninstall \in ContainerFailures(Head(plan).Installed.Package),
          missing \in MissingKeyFor(Head(plan).Installed.Package)
                          \cup MissingKeyFor(Head(plan).Upgrade) :
        LET e == Head(plan)
            reg == registeredPorts(Contexts, ActiveContext, e.Installed.Package.Name)
            bin == PackageDeactivate(e.Installed.Package, ActiveContext, binDir,
                                     missing)
            deact == DeactivateFrom(e.Installed.Package, ActiveContext, 1, binDir,
                                    missing, <<>>).err
            un == PackageUninstall(e.Installed.Package, e.Installed.Context,
                                   containers, failUninstall, TRUE, FALSE, missing)
            removed == RemoveInstalled(InstalledPackages, e.Installed)
            res == PackageInstall(e.Upgrade, ActiveContext, reg, un.containers,
                                  eph, failAt, FALSE)
            installed == Append(removed, NewInstalledPackage(e.Upgrade, ActiveContext))
            ctxs == setRegisteredPorts(Contexts, ActiveContext, e.Upgrade.Name,
                                       res.usedPorts)
        IN  IF un.err # ""
            THEN /\ binDir' = bin
                 /\ containers' = un.containers
                 /\ pc' = "idle"
                 /\ plan' = <<>>
                 /\ last' = [op |-> "UpgradeItem", old |-> e.Installed,
                             pkg |-> e.Upgrade, err |-> un.err, pre |-> Snapshot,
                             phases |-> <<"deactivate", "uninstall">>,
                             uninstall |-> un.events, install |-> <<>>,
                             deactivate |-> deact, activate |-> ""]
                 /\ UNCHANGED <<Contexts, ActiveContext, InstalledPackages, disk,
                                done, start>>
            ELSE IF res.err # ""
            THEN /\ binDir' = bin
                 /\ containers' = res.containers
                 /\ InstalledPackages' = removed
                 /\ pc' = "idle"
                 /\ plan' = <<>>
                 /\ last' = [op |-> "UpgradeItem", old |-> e.Installed,
                             pkg |-> e.Upgrade, err |-> res.err, pre |-> Snapshot,
                             phases |-> <<"deactivate", "uninstall", "install">>,
                             uninstall |-> un.events, install |-> res.events,
                             deactivate |-> deact, activate |-> ""]
                 /\ UNCHANGED <<Contexts, ActiveContext, disk, done, start>>
            ELSE /\ binDir' = PackageActivate(e.Upgrade, ActiveContext, bin, missing)
                 /\ containers' = res.containers
                 /\ InstalledPackages' = installed
                 /\ Contexts' = ctxs
                 /\ disk' = Save(disk, ctxs, ActiveContext, installed)
                 /\ plan' = Tail(plan)
                 /\ done' = Append(done, e)
                 /\ pc' = IF Tail(plan) = <<>> THEN "idle" ELSE "upgrade"
                 /\ last' = [op |-> "UpgradeItem", old |-> e.Installed,
                             pkg |-> e.Upgrade, err |-> "",
                             pre |-> [reg |-> reg,
                                      bound |-> BoundPorts(e.Installed.Package,
                                                           e.Installed.Context,
                                                           containers)],
                             phases |-> <<"deactivate", "uninstall", "install",
                                          "save", "activate">>,
                             uninstall |-> un.events, install |-> res.events,
                             deactivate |-> deact,
                             activate |-> ActivateFrom(e.Upgrade, ActiveContext, 1,
                                                       bin, missing, <<>>).err]
                 /\ UNCHANGED <<ActiveContext, start>>


\* PackageManager.Uninstall(pkgName, keepData, force)
Uninstall(pkgName, force) ==
    /\ pc = "idle"
    /\ LET active == InstalledIn(InstalledPackages, ActiveContext)
           found == {i \in DOMAIN active : active[i].Package.Name = pkgName}
           pkg == IF found = {} THEN EmptyInstalled
                  ELSE active[CHOOSE i \in found : \A j \in found : i <= j]
       IN
       \E failUninstall \in ContainerFailures(pkg.Package), keepData \in BOOLEAN,
          missing \in MissingKeyFor(pkg.Package) :
        LET
            r == NewResolver(active, ActiveContext)
            check == IF force THEN ""
                     ELSE IF r.err # "" THEN r.err ELSE ResolverUninstall(r, pkg)
            bin == PackageDeactivate(pkg.Package, ActiveContext, binDir, missing)
            deact == DeactivateFrom(pkg.Package, ActiveContext, 1, binDir, missing,
                                    <<>>).err
            un == PackageUninstall(pkg.Package, pkg.Context, containers,
                                   failUninstall, keepData, TRUE, missing)
            removed == RemoveInstalled(InstalledPackages, pkg)
            follows == /\ last.op = "InstallItem" /\ last.err = "" /\ plan = <<>>
                       /\ start.op = "Install"
                       /\ start.pkgs = <<Dep(pkgName, <<>>)>>
        IN  IF found = {}
            THEN /\ last' = [op |-> "Uninstall", name |-> pkgName, force |-> force,
                             found |-> FALSE, pkg |-> EmptyInstalled,
                             err |-> "PackageNotInstalled", pre |-> Snapshot,
                             cs |-> containers, bin |-> binDir,
                             events |-> <<>>, deactivate |-> ""]
                 /\ start' = NoStart
                 /\ UNCHANGED <<Contexts, ActiveContext, InstalledPackages, disk,
                                containers, binDir>>
            ELSE IF check # ""
            THEN /\ last' = [op |-> "Uninstall", name |-> pkgName, force |-> force,
                             found |-> TRUE, pkg |-> pkg,
                             err |-> check, pre |-> Snapshot,
                             cs |-> containers, bin |-> binDir,
                             events |-> <<>>, deactivate |-> ""]
                 /\ start' = NoStart
                 /\ UNCHANGED <<Contexts, ActiveContext, InstalledPackages, disk,
                                containers, binDir>>
            ELSE IF un.err # ""
            THEN /\ binDir' = bin
                 /\ containers' = un.containers
                 /\ last' = [op |-> "Uninstall", name |-> pkgName, force |-> force,
                             found |-> TRUE, pkg |-> pkg,
                             err |-> un.err, pre |-> Snapshot,
                             cs |-> containers, bin |-> binDir,
                             events |-> un.events, deactivate |-> deact]
                 /\ start' = NoStart
                 /\ UNCHANGED <<Contexts, ActiveContext, InstalledPackages, disk>>
            ELSE /\ binDir' = bin
                 /\ containers' = un.containers
                 /\ InstalledPackages' = removed
                 /\ disk' = Save(disk, Contexts, ActiveContext, removed)
                 /\ last' = [op |-> "Uninstall", name |-> pkgName, force |-> force,
                             found |-> TRUE, pkg |-> pkg,
                             err |-> "", pre |-> Snapshot,
                             cs |-> containers, bin |-> binDir,
                             events |-> un.events, deactivate |-> deact]
                 /\ start' = IF follows THEN start ELSE NoStart
                 /\ UNCHANGED <<Contexts, ActiveContext>>
    /\ UNCHANGED <<pc, plan, done>>

\* Context values a caller may pass for name: a fresh Context with a network,
\* or the current one with the network replaced (as the install command does)
ContextInputs(name) ==
    {[ZeroContext EXCEPT !.Network = n] : n \in NetworkInputs}
        \cup {[ContextOf(Contexts, name) EXCEPT !.Network = n] : n \in NetworkInputs}

\* PackageManager.AddContext
AddContext(name, context) ==
    /\ pc = "idle"
    /\ LET dummy == MapSet(Contexts, name, ZeroContext)
           upd == updateContext(dummy, name, context)
       IN  IF name \in DOMAIN Contexts
           THEN /\ last' = [op |-> "AddContext", name |-> name,
                            err |-> "ContextAlreadyExists"]
                /\ UNCHANGED <<Contexts, disk>>
           ELSE IF upd.err # ""
           THEN /\ Contexts' = dummy
                /\ last' = [op |-> "AddContext", name |-> name, err |-> upd.err]
                /\ UNCHANGED disk
           ELSE /\ Contexts' = upd.ctxs
                /\ disk' = Save(disk, upd.ctxs, ActiveContext, InstalledPackages)
                /\ last' = [op |-> "AddContext", name |-> name, err |-> ""]
    /\ start' = NoStart
    /\ UNCHANGED <<ActiveContext, InstalledPackages, containers, binDir,
                   pc, plan, done>>

\* PackageManager.UpdateContext
UpdateContext(name, context) ==
    /\ pc = "idle"
    /\ LET upd == updateContext(Contexts, name, context)
       IN  IF upd.err # ""
           THEN /\ last' = [op |-> "UpdateContext", name |-> name, err |-> upd.err,
                            network |-> context.Network]
                /\ UNCHANGED <<Contexts, disk>>
           ELSE /\ Contexts' = upd.ctxs
                /\ disk' = Save(disk, upd.ctxs, ActiveContext, InstalledPackages)
                /\ last' = [op |-> "UpdateContext", name |-> name, err |-> "",
                            network |-> context.Network]
    /\ start' = NoStart
    /\ UNCHANGED <<ActiveContext, InstalledPackages, containers, binDir,
                   pc, plan, done>>

\* PackageManager.UpdateContext when the process dies inside State.Save
UpdateContextCrash(name, context) ==
    /\ pc = "idle"
    /\ LET upd == updateContext(Contexts, name, context)
       IN  /\ upd.err = ""
           /\ Contexts' = upd.ctxs
           /\ \E k \in DOMAIN StateFiles, torn \in TornOutcomes :
                /\ disk' = SaveCrashing(disk, upd.ctxs, ActiveContext,
                                        InstalledPackages, k, torn)
                /\ last' = [op |-> "UpdateContextCrash", name |-> name,
                            err |-> "", file |-> StateFiles[k], pre |-> disk,
                            whole |-> Save(disk, upd.ctxs, ActiveContext,
                                           InstalledPackages)]
    /\ pc' = "crashed"
    /\ start' = NoStart
    /\ UNCHANGED <<ActiveContext, InstalledPackages, containers, binDir,
                   plan, done>>

\* variant of DeleteContext without the check for the active context
DeleteContextUnguarded(name) ==
    /\ pc = "idle"
    /\ LET err == IF name \notin DOMAIN Contexts THEN "ContextNotExist" ELSE ""
       IN  /\ last' = [op |-> "DeleteContext", name |-> name, err |-> err,
                       pre |-> <<Contexts, ActiveContext, InstalledPackages, disk>>]
           /\ IF err # ""
              THEN UNCHANGED <<Contexts, disk>>
              ELSE /\ Contexts' = MapDel(Contexts, name)
                   /\ disk' = Save(disk, MapDel(Contexts, name), ActiveContext,
                                   InstalledPackages)
    /\ start' = NoStart
    /\ UNCHANGED <<ActiveContext, InstalledPackages, containers, binDir,
                   pc, plan, done>>

\* PackageManager.DeleteContext
DeleteContext(name) ==
    /\ pc = "idle"
    /\ LET err == IF name = ActiveContext THEN "ContextNoDeleteActive"
                  ELSE IF name \notin DOMAIN Contexts THEN "ContextNotExist"
                  ELSE ""
       IN  /\ last' = [op |-> "DeleteContext", name |-> name, err |-> err,
                       pre |-> <<Contexts, ActiveContext, InstalledPackages, disk>>]
           /\ IF err # ""
              THEN UNCHANGED <<Contexts, disk>>
              ELSE /\ Contexts' = MapDel(Contexts, name)
                   /\ disk' = Save(disk, MapDel(Contexts, name), ActiveContext,
                                   InstalledPackages)
    /\ start' = NoStart
    /\ UNCHANGED <<ActiveContext, InstalledPackages, containers, binDir,
                   pc, plan, done>>

\* every package of the list deactivated (activated), in list order
RECURSIVE DeactivateAll(_, _, _, _)
DeactivateAll(pkgs, context, bin, missing) ==
    IF pkgs = <<>> THEN bin
    ELSE DeactivateAll(Tail(pkgs), context,
                       PackageDeactivate(Head(pkgs).Package, context, bin, missing),
                       missing)

RECURSIVE ActivateAll(_, _, _, _)
ActivateAll(pkgs, context, bin, missing) ==
    IF pkgs = <<>> THEN bin
    ELSE ActivateAll(Tail(pkgs), context,
                     PackageActivate(Head(pkgs).Package, context, bin, missing),
                     missing)

\* variant of SetActiveContext that gives up when a package fails to
\* deactivate or activate
SetActiveContextAborting(name) ==
    /\ pc = "idle"
    /\ \E missing \in MissingKey :
       LET old == InstalledIn(InstalledPackages, ActiveContext)
           new == InstalledIn(InstalledPackages, name)
           deactivated == DeactivateAll(old, ActiveContext, binDir, missing)
           failed == \/ \E i \in DOMAIN old :
                           DeactivateFrom(old[i].Package, ActiveContext, 1, binDir,
                                          missing, <<>>).err # ""
                     \/ \E i \in DOMAIN new :
                           ActivateFrom(new[i].Package, name, 1, deactivated,
                                        missing, <<>>).err # ""
       IN
       IF name \notin DOMAIN Contexts
       THEN /\ last' = [op |-> "SetActiveContext", name |-> name,
                        err |-> "ContextNotExist", from |-> ActiveContext,
                        bin |-> binDir, failed |-> FALSE]
            /\ UNCHANGED <<ActiveContext, disk, binDir>>
       ELSE IF failed
       THEN /\ last' = [op |-> "SetActiveContext", name |-> name,
                        err |-> "ActivateFailed", from |-> ActiveContext,
                        bin |-> binDir, failed |-> TRUE]
            /\ UNCHANGED <<ActiveContext, disk, binDir>>
       ELSE /\ ActiveContext' = name
            /\ disk' = Save(disk, Contexts, name, InstalledPackages)
            /\ binDir' = ActivateAll(new, name, deactivated, missing)
            /\ last' = [op |-> "SetActiveContext", name |-> name, err |-> "",
                        from |-> ActiveContext, bin |-> binDir, failed |-> failed]
    /\ start' = NoStart
    /\ UNCHANGED <<Contexts, InstalledPackages, containers, pc, plan, done>>

\* variant of SetActiveContext that activates the packages of the new context
\* before it deactivates those of the old one
SetActiveContextActivateFirst(name) ==
    /\ pc = "idle"
    /\ \E missing \in MissingKey :
       LET old == InstalledIn(InstalledPackages, ActiveContext)
           new == InstalledIn(InstalledPackages, name)
           deactivated == DeactivateAll(old, ActiveContext, binDir, missing)
           failed == \/ \E i \in DOMAIN old :
                           DeactivateFrom(old[i].Package, ActiveContext, 1, binDir,
                                          missing, <<>>).err # ""
                     \/ \E i \in DOMAIN new :
                           ActivateFrom(new[i].Package, name, 1, deactivated,
                                        missing, <<>>).err # ""
       IN
       IF name \notin DOMAIN Contexts
       THEN /\ last' = [op |-> "SetActiveContext", name |-> name,
                        err |-> "ContextNotExist", from |-> ActiveContext,
                        bin |-> binDir, failed |-> FALSE]
            /\ UNCHANGED <<ActiveContext, disk, binDir>>
       ELSE /\ ActiveContext' = name
            /\ disk' = Save(disk, Contexts, name, InstalledPackages)
            /\ binDir' = DeactivateAll(old, ActiveContext,
                          ActivateAll(new, name, binDir, missing), missing)
            /\ last' = [op |-> "SetActiveContext", name |-> name, err |-> "",
                        from |-> ActiveContext, bin |-> binDir, failed |-> failed]
    /\ start' = NoStart
    /\ UNCHANGED <<Contexts, InstalledPackages, containers, pc, plan, done>>

\* PackageManager.SetActiveContext
SetActiveContext(name) ==
    /\ pc = "idle"
    /\ \E missing \in MissingKey :
       LET old == InstalledIn(InstalledPackages, ActiveContext)
           new == InstalledIn(InstalledPackages, name)
           deactivated == DeactivateAll(old, ActiveContext, binDir, missing)
           failed == \/ \E i \in DOMAIN old :
                           DeactivateFrom(old[i].Package, ActiveContext, 1, binDir,
                                          missing, <<>>).err # ""
                     \/ \E i \in DOMAIN new :
                           ActivateFrom(new[i].Package, name, 1, deactivated,
                                        missing, <<>>).err # ""
       IN
       IF name \notin DOMAIN Contexts
       THEN /\ last' = [op |-> "SetActiveContext", name |-> name,
                        err |-> "ContextNotExist", from |-> ActiveContext,
                        bin |-> binDir, failed |-> FALSE]
            /\ UNCHANGED <<ActiveContext, disk, binDir>>
       ELSE /\ ActiveContext' = name
            /\ disk' = Save(disk, Contexts, name, InstalledPackages)
            /\ binDir' = ActivateAll(new, name, deactivated, missing)
            /\ last' = [op |-> "SetActiveContext", name |-> name, err |-> "",
                        from |-> ActiveContext, bin |-> binDir, failed |-> failed]
    /\ start' = NoStart
    /\ UNCHANGED <<Contexts, InstalledPackages, containers, pc, plan, done>>

\* what the user may put into the bin directory
PlacedEntries == {RegularFile, ForeignSymlink}

\* the user, outside the package manager, writes a file or a symlink where the
\* bin directory has no entry
PlaceFile(filename, entry) ==
    /\ pc = "idle"
    /\ binDir[filename].kind = "absent"
    /\ binDir' = [binDir EXCEPT ![filename] = entry]
    /\ last' = [op |-> "PlaceFile", name |-> filename, err |-> ""]
    /\ start' = NoStart
    /\ UNCHANGED <<Contexts, ActiveContext, InstalledPackages, disk, containers,
                   pc, plan, done>>

\* the process stops and a new one is started: NewPackageManager loads the
\* state from the configuration directory
Restart ==
    /\ IF disk.Corrupt # {}
       THEN /\ pc' = "failed"
            /\ last' = [op |-> "Restart", during |-> pc, err |-> "LoadError"]
            /\ UNCHANGED <<Contexts, ActiveContext, InstalledPackages, disk>>
       ELSE /\ Contexts' = Load(disk).Contexts
            /\ ActiveContext' = Load(disk).ActiveContext
            /\ InstalledPackages' = Load(disk).InstalledPackages
            /\ disk' = [disk EXCEPT !.PortRegistry = loadPortRegistry(disk),
                                    !.Migrated = @ \/ loadPortRegistry(disk)
                                                        # disk.PortRegistry]
            /\ pc' = "idle"
            /\ last' = [op |-> "Restart", during |-> pc, err |-> ""]
    /\ plan' = <<>>
    /\ start' = IF pc = "idle" THEN NoStart ELSE start
    /\ done' = IF pc = "idle" THEN <<>> ELSE done
    /\ UNCHANGED <<containers, binDir>>

\* the names a caller may ask to uninstall: every name that is installed
\* somewhere, and one name that never is
UninstallNames ==
    {InstalledPackages[i].Package.Name : i \in DOMAIN InstalledPackages}
        \cup {"pkgE"}

Next ==
    \/ \E pkgs \in Requests : Install(pkgs)
    \/ InstallItem
    \/ \E pkgs \in Requests : Upgrade(pkgs)
    \/ UpgradeItem
    \/ \E n \in UninstallNames, force \in BOOLEAN : Uninstall(n, force)
    \/ \E c \in ContextInputs(defaultContextName) :
            UpdateContext(defaultContextName, c)

NextContexts ==
    \/ \E n \in ContextNames : \E c \in ContextInputs(n) : AddContext(n, c)
    \/ \E n \in ContextNames : \E c \in ContextInputs(n) : UpdateContext(n, c)
    \/ \E n \in ContextNames : DeleteContext(n)
    \/ \E n \in ContextNames : SetActiveContext(n)
    \/ Restart

\* Install, Upgrade and Uninstall in the contexts that exist; UpdateContext
\* gives the default context its network
Spec == Init /\ [][Next]_vars


\* the context operations alone, from Load on an empty configuration directory
SpecContexts == Init /\ [][NextContexts]_vars

\* the requests of a caller who works in two contexts
TwoContextRequests == {<<Dep("pkgA", <<>>)>>, <<Dep("pkgB", <<>>)>>}

\* a fresh Context on the network preprod
PreprodContext == [ZeroContext EXCEPT !.Network = "preprod"]

NextTwoContexts ==
    \/ \E pkgs \in TwoContextRequests : Install(pkgs)
    \/ InstallItem
    \/ \E pkgs \in TwoContextRequests : Upgrade(pkgs)
    \/ UpgradeItem
    \/ \E n \in UninstallNames : Uninstall(n, FALSE)
    \/ AddContext("c1", PreprodContext)
    \/ /\ ContextOf(Contexts, defaultContextName).Network = ""
       /\ UpdateContext(defaultContextName, PreprodContext)
    \/ \E n \in ContextNames : SetActiveContext(n)

\* Install, Upgrade and Uninstall in two contexts on the same network, the
\* caller switching between them
SpecTwoContexts == Init /\ [][NextTwoContexts]_vars

\* the requests of a caller who installs the package with a binary
ActivationRequests ==
    {<<Dep("pkgB", <<>>)>>, <<Dep("pkgB", <<C("<", <<0, 2, 0>>)>>)>>}

NextActivation ==
    \/ \E pkgs \in ActivationRequests : Install(pkgs)
    \/ InstallItem
    \/ Upgrade(<<Dep("pkgB", <<>>)>>)
    \/ UpgradeItem
    \/ \E n \in UninstallNames : Uninstall(n, FALSE)
    \/ AddContext("c1", PreprodContext)
    \/ /\ ContextOf(Contexts, defaultContextName).Network = ""
       /\ UpdateContext(defaultContextName, PreprodContext)
    \/ \E n \in ContextNames : SetActiveContext(n)
    \/ \E entry \in PlacedEntries : PlaceFile("binB", entry)

\* the requests of the behaviours with a stopping process
CrashRequests == {<<Dep("pkgA", <<>>)>>}

NextCrash ==
    \/ \E pkgs \in CrashRequests : Install(pkgs)
    \/ InstallItem
    \/ \E n \in UninstallNames : Uninstall(n, FALSE)
    \/ /\ ContextOf(Contexts, defaultContextName).Network = ""
       /\ UpdateContext(defaultContextName, PreprodContext)
    \/ UpdateContextCrash(defaultContextName,
                          ContextOf(Contexts, defaultContextName))
    \/ Restart

\* pkgA installed and uninstalled in the default context while the process may
\* stop between two operations, inside the loop of Install and inside
\* State.Save
SpecCrash == Init /\ [][NextCrash]_vars

\* the sequences over S with 1 to n elements
RECURSIVE SeqsUpTo(_, _)
SeqsUpTo(S, n) ==
    IF n = 0 THEN {}
    ELSE {<<x>> : x \in S}
            \cup {Append(q, x) : q \in SeqsUpTo(S, n - 1), x \in S}

\* the key of an output in the environment: package name and output name
\* joined by "_", every run of characters outside [A-Za-z0-9_] replaced by
\* "_", in upper case
EnvKey(name, output) ==
    CASE name = "pkg-d" /\ output = "url" -> "PKG_D_URL"
      [] name = "pkg.d" /\ output = "url" -> "PKG_D_URL"
      [] name = "pkgA" /\ output = "url" -> "PKGA_URL"
      [] name = "pkgA" /\ output = "socket path" -> "PKGA_SOCKET_PATH"
      [] OTHER -> "_"

\* the names of the outputs of the manifest of a package
OutputNames(name) == IF name = "pkgA" THEN {"url", "socket path"} ELSE {"url"}

\* the outputs Package.install generates: key -> rendered value, which tells
\* the package, its version and the context
InstallOutputs(pkg, context) ==
    [k \in {EnvKey(pkg.Name, o) : o \in OutputNames(pkg.Name)} |->
        <<pkg.Name, pkg.Version, context>>]

\* maps.Copy(dst, src)
MapsCopy(dst, src) ==
    [k \in DOMAIN dst \cup DOMAIN src |-> IF k \in DOMAIN src THEN src[k] ELSE dst[k]]

\* the loop of ContextEnv over pkgs from record i on
RECURSIVE CopyOutputs(_, _, _)
CopyOutputs(pkgs, i, ret) ==
    IF i > Len(pkgs) THEN ret
    ELSE CopyOutputs(pkgs, i + 1, MapsCopy(ret, pkgs[i].Outputs))

\* variant of ContextEnv that copies the outputs of the records of every
\* context
ContextEnvAnyContext(installed, active) == CopyOutputs(installed, 1, EmptyMap)

\* PackageManager.ContextEnv
ContextEnv(installed, active) ==
    CopyOutputs(InstalledIn(installed, active), 1, EmptyMap)

\* the longest installed-package list handed to ContextEnv
MaxEnvRecords == 2

\* installed-package records with their outputs: two packages whose names give
\* the same key, and two versions of a package, in two contexts
RecordInputs ==
    {[Package |-> pkg, Context |-> c, InstalledTime |-> 1,
      Outputs |-> InstallOutputs(pkg, c)] :
        pkg \in {Package("pkg-d", <<1, 0, 0>>, <<>>, <<>>),
                 Package("pkg.d", <<1, 0, 0>>, <<>>, <<>>),
                 Package("pkgA", <<1, 0, 2>>, <<>>, <<>>),
                 Package("pkgA", <<1, 0, 3>>, <<>>, <<>>)},
        c \in ContextNames}

\* the installed-package list and the active context of a call of ContextEnv
InitContextEnv ==
    /\ disk = EmptyDisk
    /\ Contexts = Load(EmptyDisk).Contexts
    /\ ActiveContext = Load(EmptyDisk).ActiveContext
    /\ InstalledPackages = Load(EmptyDisk).InstalledPackages
    /\ containers = {}
    /\ binDir = [f \in {"binB"} |-> NoEntry]
    /\ pc = "idle"
    /\ plan = <<>>
    /\ done = <<>>
    /\ start = NoStart
    /\ \E installed \in SeqsUpTo(RecordInputs, MaxEnvRecords) \cup {<<>>},
          active \in ContextNames :
          last = [op |-> "input", err |-> "", installed |-> installed,
                  active |-> active]

\* the call of ContextEnv on the list
CallContextEnv ==
    /\ last.op = "input"
    /\ last' = [op |-> "ContextEnv", err |-> "", installed |-> last.installed,
                active |-> last.active,
                ret |-> ContextEnv(last.installed, last.active)]
    /\ UNCHANGED <<Contexts, ActiveContext, InstalledPackages, disk, containers,
                   binDir, pc, plan, done, start>>

NextContextEnv == CallContextEnv

\* ContextEnv applied to every installed-package list
SpecContextEnv == InitContextEnv /\ [][NextContextEnv]_vars

\* the loop of startService and stopService over the install steps from step
\* i on: every docker step that is not pull-only has its container started
\* (stopped); a container that fails is noted and the loop goes on
RECURSIVE ServiceLoop(_, _, _, _, _, _)
ServiceLoop(pkg, verb, fails, i, failed, events) ==
    IF i > Len(pkg.InstallSteps) THEN [failed |-> failed, events |-> events]
    ELSE IF pkg.InstallSteps[i].Docker /\ ~pkg.InstallSteps[i].PullOnly
    THEN ServiceLoop(pkg, verb, fails, i + 1, failed \/ fails,
                     Append(events, Event(verb, i)))
    ELSE ServiceLoop(pkg, verb, fails, i + 1, failed, events)

\* variant of startService that runs the preStartScript after the containers
startServiceHookLast(pkg, hookFails, fails) ==
    LET run == ServiceLoop(pkg, "start", fails, 1, FALSE, <<>>)
        events == IF pkg.HookScripts
                  THEN Append(run.events, Event("preStartScript", 0))
                  ELSE run.events
    IN  IF pkg.HookScripts /\ hookFails
        THEN [err |-> "HookFailed", events |-> events]
        ELSE [err |-> IF run.failed THEN "OperationFailed" ELSE "",
              events |-> events]

\* Package.startService: the preStartScript, then the containers; hookFails
\* and fails tell whether the script and the runtime fail
startService(pkg, hookFails, fails) ==
    LET before == IF pkg.HookScripts THEN <<Event("preStartScript", 0)>> ELSE <<>>
        run == ServiceLoop(pkg, "start", fails, 1, FALSE, before)
    IN  IF pkg.HookScripts /\ hookFails
        THEN [err |-> "HookFailed", events |-> before]
        ELSE [err |-> IF run.failed THEN "OperationFailed" ELSE "",
              events |-> run.events]

\* Package.stopService: the preStopScript, then the containers
stopService(pkg, hookFails, fails) ==
    LET before == IF pkg.HookScripts THEN <<Event("preStopScript", 0)>> ELSE <<>>
        run == ServiceLoop(pkg, "stop", fails, 1, FALSE, before)
    IN  IF pkg.HookScripts /\ hookFails
        THEN [err |-> "HookFailed", events |-> before]
        ELSE [err |-> IF run.failed THEN "OperationFailed" ELSE "",
              events |-> run.events]

\* the loop of PackageManager.Up (Down) over pkgs from record k on; the hook
\* of record failHook and the runtime for record failRun fail; the loop
\* returns at the first record whose pass returns an error
RECURSIVE UpDownFrom(_, _, _, _, _, _)
UpDownFrom(pkgs, verb, failHook, failRun, k, visits) ==
    IF k > Len(pkgs) THEN [err |-> "", visits |-> visits]
    ELSE LET res == IF verb = "Up"
                    THEN startService(pkgs[k].Package, failHook = k, failRun = k)
                    ELSE stopService(pkgs[k].Package, failHook = k, failRun = k)
             visit == [pkg |-> pkgs[k], err |-> res.err, events |-> res.events]
         IN  IF res.err # ""
             THEN [err |-> res.err, visits |-> Append(visits, visit)]
             ELSE UpDownFrom(pkgs, verb, failHook, failRun, k + 1,
                             Append(visits, visit))

\* PackageManager.Up
Up(installed, active, failHook, failRun) ==
    UpDownFrom(InstalledIn(installed, active), "Up", failHook, failRun, 1, <<>>)

\* PackageManager.Down
Down(installed, active, failHook, failRun) ==
    UpDownFrom(InstalledIn(installed, active), "Down", failHook, failRun, 1, <<>>)

\* the longest installed-package list handed to Up and Down
MaxServiceRecords == 2

\* installed packages with services: one with hook scripts, a service and a
\* pull-only image, one with a service only, one with a file only
ServiceRecordInputs ==
    {NewInstalledPackage(pkg, c) :
        pkg \in {WithHookScripts(Package("pkgA", <<1, 0, 2>>, <<>>,
                                       <<DockerStep("img", <<>>, TRUE), NodeStep>>)),
                 Package("pkgS", <<1, 0, 0>>, <<>>, <<NodeStep>>),
                 WithHookScripts(Package("pkgB", <<0, 1, 0>>, <<>>,
                                         <<FileStep("binB", TRUE)>>))},
        c \in ContextNames}

\* the installed-package list, the active context and the failures of a call
\* of Up or Down
InitService ==
    /\ disk = EmptyDisk
    /\ Contexts = Load(EmptyDisk).Contexts
    /\ ActiveContext = Load(EmptyDisk).ActiveContext
    /\ InstalledPackages = Load(EmptyDisk).InstalledPackages
    /\ containers = {}
    /\ binDir = [f \in {"binB"} |-> NoEntry]
    /\ pc = "idle"
    /\ plan = <<>>
    /\ done = <<>>
    /\ start = NoStart
    /\ \E installed \in SeqsUpTo(ServiceRecordInputs, MaxServiceRecords)
                            \cup {<<>>},
          active \in ContextNames :
          \E failHook \in 0..Len(installed), failRun \in 0..Len(installed) :
             last = [op |-> "input", err |-> "", installed |-> installed,
                     active |-> active, failHook |-> failHook,
                     failRun |-> failRun]

\* the call of Up on the arguments
CallUp ==
    /\ last.op = "input"
    /\ LET ret == Up(last.installed, last.active, last.failHook, last.failRun)
       IN  last' = [op |-> "Up", err |-> ret.err, installed |-> last.installed,
                    active |-> last.active, failHook |-> last.failHook,
                    failRun |-> last.failRun, ret |-> ret]
    /\ UNCHANGED <<Contexts, ActiveContext, InstalledPackages, disk, containers,
                   binDir, pc, plan, done, start>>

\* the call of Down on the arguments
CallDown ==
    /\ last.op = "input"
    /\ LET ret == Down(last.installed, last.active, last.failHook, last.failRun)
       IN  last' = [op |-> "Down", err |-> ret.err, installed |-> last.installed,
                    active |-> last.active, failHook |-> last.failHook,
                    failRun |-> last.failRun, ret |-> ret]
    /\ UNCHANGED <<Contexts, ActiveContext, InstalledPackages, disk, containers,
                   binDir, pc, plan, done, start>>

NextService ==
    \/ CallUp
    \/ CallDown

\* Up and Down applied to every installed-package list
SpecService == InitService /\ [][NextService]_vars

(***************************************************************************)
(* Resolver.splitPackage on the text of a package spec.  A string is the   *)
(* sequence of its characters.                                             *)
(***************************************************************************)
\* the characters that start the version spec
VersionSpecChars == {" ", "<", ">", "=", "~", "!"}

\* strings.IndexAny: the 0-based index of the first character of s that is
\* in chars, -1 when there is none
IndexAny(s, chars) ==
    IF \E i \in DOMAIN s : s[i] \in chars
    THEN (CHOOSE i \in DOMAIN s :
             s[i] \in chars /\ \A j \in 1..(i - 1) : s[j] \notin chars) - 1
    ELSE -1

\* strings.Index for a separator of one character
Index(s, c) == IndexAny(s, {c})

\* the slice s[lo:hi]
Slice(s, lo, hi) == SubSeq(s, lo + 1, hi)

\* strings.Split for a separator of one character
RECURSIVE Split(_, _)
Split(s, sep) ==
    IF Index(s, sep) < 0 THEN <<s>>
    ELSE <<Slice(s, 0, Index(s, sep))>>
         \o Split(Slice(s, Index(s, sep) + 1, Len(s)), sep)

\* strings.TrimSpace
RECURSIVE TrimSpace(_)
TrimSpace(s) ==
    IF s # <<>> /\ Head(s) = " " THEN TrimSpace(Tail(s))
    ELSE IF s # <<>> /\ s[Len(s)] = " " THEN TrimSpace(SubSeq(s, 1, Len(s) - 1))
    ELSE s

\* the loop of splitPackage over the flags between the brackets: a flag
\* maps to true, a flag with the prefix - to false under the rest of its text
RECURSIVE FlagLoop(_, _, _)
FlagLoop(tmpFlags, i, pkgOpts) ==
    IF i > Len(tmpFlags) THEN pkgOpts
    ELSE LET neg == tmpFlags[i] # <<>> /\ Head(tmpFlags[i]) = "-"
             tmpFlag == IF neg THEN Tail(tmpFlags[i]) ELSE tmpFlags[i]
         IN  FlagLoop(tmpFlags, i + 1, MapSet(pkgOpts, tmpFlag, ~neg))

\* variant of splitPackage that keeps the spaces around the version spec
splitPackageUntrimmed(pkg) ==
    LET optsOpenIdx == Index(pkg, "[")
        optsCloseIdx == Index(pkg, "]")
        hasOpts == optsOpenIdx > 0 /\ optsCloseIdx > optsOpenIdx
        pkgOpts == IF hasOpts
                   THEN FlagLoop(Split(Slice(pkg, optsOpenIdx + 1, optsCloseIdx), ","),
                                 1, EmptyMap)
                   ELSE EmptyMap
        versionSpecIdx == IndexAny(pkg, VersionSpecChars)
        pkgName == IF hasOpts THEN Slice(pkg, 0, optsOpenIdx)
                   ELSE IF versionSpecIdx > 0 THEN Slice(pkg, 0, versionSpecIdx)
                   ELSE pkg
        pkgVersionSpec == IF versionSpecIdx > 0
                          THEN Slice(pkg, versionSpecIdx, Len(pkg))
                          ELSE <<>>
    IN  [name |-> pkgName, spec |-> pkgVersionSpec, opts |-> pkgOpts]

\* Resolver.splitPackage
splitPackage(pkg) ==
    LET optsOpenIdx == Index(pkg, "[")
        optsCloseIdx == Index(pkg, "]")
        hasOpts == optsOpenIdx > 0 /\ optsCloseIdx > optsOpenIdx
        pkgOpts == IF hasOpts
                   THEN FlagLoop(Split(Slice(pkg, optsOpenIdx + 1, optsCloseIdx), ","),
                                 1, EmptyMap)
                   ELSE EmptyMap
        versionSpecIdx == IndexAny(pkg, VersionSpecChars)
        pkgName == IF hasOpts THEN Slice(pkg, 0, optsOpenIdx)
                   ELSE IF versionSpecIdx > 0 THEN Slice(pkg, 0, versionSpecIdx)
                   ELSE pkg
        pkgVersionSpec == IF versionSpecIdx > 0
                          THEN TrimSpace(Slice(pkg, versionSpecIdx, Len(pkg)))
                          ELSE <<>>
    IN  [name |-> pkgName, spec |-> pkgVersionSpec, opts |-> pkgOpts]

\* the longest package spec of which every text is tried
MaxSpecLen == 4

\* the characters of those texts: a name character, the brackets, the comma
\* and the minus of the option list, the space and a constraint character
SpecChars == {"a", "[", "]", ",", "-", " ", "<"}

\* package specs as token lists of the dependency grammar: the name, the
\* option list or none, the version constraint or none
TokenInputs ==
    {<<<<"a">>>> \o opts \o cons :
        opts \in {<<>>,
                  <<<<"[">>, <<"b">>, <<"]">>>>,
                  <<<<"[">>, <<"b">>, <<",">>, <<"-", "c">>, <<"]">>>>},
        cons \in {<<>>, <<<<"<">>, <<"1">>>>, <<<<">", "=">>, <<"1">>>>}}

\* the text of a token list with a space after every token whose index is in gaps
RECURSIVE JoinTokens(_, _, _)
JoinTokens(tokens, gaps, i) ==
    IF i > Len(tokens) THEN <<>>
    ELSE tokens[i] \o (IF i \in gaps THEN <<" ">> ELSE <<>>)
         \o JoinTokens(tokens, gaps, i + 1)

\* the argument of a call of splitPackage: any text of up to MaxSpecLen
\* characters, or a token list with spaces between some of its tokens (plain
\* is the same token list without the spaces)
InitSplitPackage ==
    /\ disk = EmptyDisk
    /\ Contexts = Load(EmptyDisk).Contexts
    /\ ActiveContext = Load(EmptyDisk).ActiveContext
    /\ InstalledPackages = Load(EmptyDisk).InstalledPackages
    /\ containers = {}
    /\ binDir = [f \in {"binB"} |-> NoEntry]
    /\ pc = "idle"
    /\ plan = <<>>
    /\ done = <<>>
    /\ start = NoStart
    /\ \/ \E pkg \in SeqsUpTo(SpecChars, MaxSpecLen) \cup {<<>>} :
             last = [op |-> "input", err |-> "", pkg |-> pkg, plain |-> pkg,
                     tokens |-> <<>>]
       \/ \E tokens \in TokenInputs :
             \E gaps \in SUBSET (1..(Len(tokens) - 1)) :
                last = [op |-> "input", err |-> "",
                        pkg |-> JoinTokens(tokens, gaps, 1),
                        plain |-> JoinTokens(tokens, {}, 1),
                        tokens |-> tokens]

\* the call of splitPackage on the text and on the text without the spaces
CallSplitPackage ==
    /\ last.op = "input"
    /\ last' = [op |-> "splitPackage", err |-> "", pkg |-> last.pkg,
                plain |-> last.plain, tokens |-> last.tokens,
                ret |-> splitPackage(last.pkg),
                retPlain |-> splitPackage(last.plain)]
    /\ UNCHANGED <<Contexts, ActiveContext, InstalledPackages, disk, containers,
                   binDir, pc, plan, done, start>>

NextSplitPackage == CallSplitPackage

\* splitPackage applied to every argument
SpecSplitPackage == InitSplitPackage /\ [][NextSplitPackage]_vars

(***************************************************************************)
(* The list-available command (cmd/cardano-up/list.go) on the text of the  *)
(* versions.  A version text is the sequence of its characters.            *)
(***************************************************************************)
\* the digits
Digits == {"0", "1", "2", "9"}

\* the value of a digit
DigitValue(ch) ==
    CASE ch = "0" -> 0 [] ch = "1" -> 1 [] ch = "2" -> 2 [] ch = "9" -> 9

\* the byte of a character, by which Go orders strings
CharCode(ch) ==
    CASE ch = "." -> 46 [] ch = "0" -> 48 [] ch = "1" -> 49 [] ch = "2" -> 50
      [] ch = "9" -> 57 [] ch = "x" -> 120

\* the number a sequence of digits denotes
RECURSIVE Atoi(_)
Atoi(digits) ==
    IF digits = <<>> THEN 0
    ELSE 10 * Atoi(SubSeq(digits, 1, Len(digits) - 1)) + DigitValue(digits[Len(digits)])

\* version.NewVersion: the dot-separated segments as numbers, filled with
\* zeros to three segments; an error for a text that is not of that form
NewVersion(v) ==
    LET parts == Split(v, ".")
        wellFormed == \A k \in DOMAIN parts :
                         parts[k] # <<>> /\ \A i \in DOMAIN parts[k] : parts[k][i] \in Digits
    IN  IF ~wellFormed \/ Len(parts) > 3 THEN [err |-> TRUE, ver |-> <<0, 0, 0>>]
        ELSE [err |-> FALSE,
              ver |-> [k \in 1..3 |-> IF k <= Len(parts) THEN Atoi(parts[k]) ELSE 0]]

\* the order v1 > v2 of Go strings
RECURSIVE StringGreater(_, _)
StringGreater(v1, v2) ==
    IF v1 = <<>> THEN FALSE
    ELSE IF v2 = <<>> THEN TRUE
    ELSE IF Head(v1) # Head(v2) THEN CharCode(Head(v1)) > CharCode(Head(v2))
    ELSE StringGreater(Tail(v1), Tail(v2))

\* variant of compareVersions that compares the texts
compareVersionsAsStrings(v1, v2) == StringGreater(v1, v2)

\* compareVersions
compareVersions(v1, v2) ==
    IF NewVersion(v1).err \/ NewVersion(v2).err THEN StringGreater(v1, v2)
    ELSE GreaterThan(NewVersion(v1).ver, NewVersion(v2).ver)

\* the loop of list-available without -v over packages from index on:
\* latestPackages maps a name to the index of its entry, order lists the
\* names as they first occur
RECURSIVE LatestLoop(_, _, _, _)
LatestLoop(packages, index, latestPackages, order) ==
    IF index > Len(packages)
    THEN [latestPackages |-> latestPackages, order |-> order]
    ELSE LET packageName == packages[index].Name
             exists == packageName \in DOMAIN latestPackages
         IN  IF ~exists
             THEN LatestLoop(packages, index + 1,
                             MapSet(latestPackages, packageName, index),
                             Append(order, packageName))
             ELSE IF compareVersions(packages[index].Version,
                                     packages[latestPackages[packageName]].Version)
             THEN LatestLoop(packages, index + 1,
                             MapSet(latestPackages, packageName, index), order)
             ELSE LatestLoop(packages, index + 1, latestPackages, order)

\* the packages list-available prints, in order
listAvailable(packages, verbose) ==
    IF verbose THEN packages
    ELSE LET run == LatestLoop(packages, 1, EmptyMap, <<>>)
         IN  [k \in DOMAIN run.order |-> packages[run.latestPackages[run.order[k]]]]

\* the longest list of available packages handed to list-available
MaxListed == 3

\* the version texts of the listed packages: 10.1.1, 2.0.0, 1.10.0, 1.9.0,
\* 2.0 and the malformed x
VersionTexts ==
    {<<"1", "0", ".", "1", ".", "1">>, <<"2", ".", "0", ".", "0">>,
     <<"1", ".", "1", "0", ".", "0">>, <<"1", ".", "9", ".", "0">>,
     <<"2", ".", "0">>, <<"x">>}

\* the available packages of the lists
ListedInputs == [Name : {"pkgA", "pkgB"}, Version : VersionTexts]

\* the arguments of a call of compareVersions, or the available packages and
\* the -v flag of a run of list-available
InitList ==
    /\ disk = EmptyDisk
    /\ Contexts = Load(EmptyDisk).Contexts
    /\ ActiveContext = Load(EmptyDisk).ActiveContext
    /\ InstalledPackages = Load(EmptyDisk).InstalledPackages
    /\ containers = {}
    /\ binDir = [f \in {"binB"} |-> NoEntry]
    /\ pc = "idle"
    /\ plan = <<>>
    /\ done = <<>>
    /\ start = NoStart
    /\ \/ \E v1 \in VersionTexts, v2 \in VersionTexts :
             last = [op |-> "input", err |-> "", call |-> "compareVersions",
                     v1 |-> v1, v2 |-> v2]
       \/ \E packages \in SeqsUpTo(ListedInputs, MaxListed) \cup {<<>>},
             verbose \in BOOLEAN :
             last = [op |-> "input", err |-> "", call |-> "list-available",
                     packages |-> packages, verbose |-> verbose]

\* the call of compareVersions on the arguments
CallCompareVersions ==
    /\ last.op = "input" /\ last.call = "compareVersions"
    /\ last' = [op |-> "compareVersions", err |-> "", v1 |-> last.v1,
                v2 |-> last.v2, ret |-> compareVersions(last.v1, last.v2)]
    /\ UNCHANGED <<Contexts, ActiveContext, InstalledPackages, disk, containers,
                   binDir, pc, plan, done, start>>

\* the run of list-available on the available packages
CallListAvailable ==
    /\ last.op = "input" /\ last.call = "list-available"
    /\ last' = [op |-> "list-available", err |-> "", packages |-> last.packages,
                verbose |-> last.verbose,
                printed |-> listAvailable(last.packages, last.verbose)]
    /\ UNCHANGED <<Contexts, ActiveContext, InstalledPackages, disk, containers,
                   binDir, pc, plan, done, start>>

NextList ==
    \/ CallCompareVersions
    \/ CallListAvailable

\* compareVersions and list-available applied to every argument
SpecList == InitList /\ [][NextList]_vars

\* the requests of a caller who installs a package whose dependency has a
\* dependency of its own
ChainRequests ==
    {<<Dep("pkgD", <<>>)>>, <<Dep("pkgB", <<C("<", <<0, 2, 0>>)>>)>>,
     <<Dep("pkgA", <<C("<", <<1, 0, 3>>)>>)>>}

\* the requests of that caller to upgrade
ChainUpgrades == {<<Dep("pkgA", <<>>)>>, <<Dep("pkgB", <<>>)>>}

NextChain ==
    \/ \E pkgs \in ChainRequests : Install(pkgs)
    \/ InstallItem
    \/ \E pkgs \in ChainUpgrades : Upgrade(pkgs)
    \/ UpgradeItem
    \/ \E n \in UninstallNames : Uninstall(n, FALSE)
    \/ /\ ContextOf(Contexts, defaultContextName).Network = ""
       /\ UpdateContext(defaultContextName, PreprodContext)

\* Install, Upgrade and Uninstall without force in the default context, with
\* pkgD that depends on pkgB that depends on pkgA
SpecChain == Init /\ [][NextChain]_vars

(***************************************************************************)
(* The `context delete` command (contextDeleteCommand in unnamed/part_015). *)
(***************************************************************************)
\* the bin directory after SetActiveContext from one context to another
SwitchedBin(installed, from, to, bin, missing) ==
    ActivateAll(InstalledIn(installed, to), to,
                DeactivateAll(InstalledIn(installed, from), from, bin, missing),
                missing)

\* the loop of the command over the packages it found in the context, from
\* entry i on: pm.Uninstall(name, false, true) of each, a failure only
\* logged; st holds the installed packages, the containers and the bin
\* directory, fails the entries whose container cannot be removed
RECURSIVE ForceUninstallFrom(_, _, _, _, _, _)
ForceUninstallFrom(pkgs, context, i, st, fails, missing) ==
    IF i > Len(pkgs) THEN st
    ELSE LET active == InstalledIn(st.installed, context)
             found == {k \in DOMAIN active :
                          active[k].Package.Name = pkgs[i].Package.Name}
             pkg == IF found = {} THEN EmptyInstalled
                    ELSE active[CHOOSE k \in found : \A j \in found : k <= j]
             bin == PackageDeactivate(pkg.Package, context, st.bin, missing)
             un == PackageUninstall(pkg.Package, pkg.Context, st.containers,
                                    i \in fails /\ ServiceSteps(pkg.Package) # <<>>,
                                    FALSE, TRUE, missing)
         IN  IF found = {}
             THEN ForceUninstallFrom(pkgs, context, i + 1, st, fails, missing)
             ELSE IF un.err # ""
             THEN ForceUninstallFrom(pkgs, context, i + 1,
                     [st EXCEPT !.containers = un.containers, !.bin = bin,
                                !.failed = TRUE],
                     fails, missing)
             ELSE ForceUninstallFrom(pkgs, context, i + 1,
                     [st EXCEPT !.installed = RemoveInstalled(st.installed, pkg),
                                !.containers = un.containers, !.bin = bin],
                     fails, missing)

\* the command `context delete <name>`, with -f when force: it refuses the
\* active context, switches to the context, gives up and switches back when
\* packages are installed there and force is not set, uninstalls them when
\* it is, switches back and calls DeleteContext
ContextDelete(name, force) ==
    /\ pc = "idle"
    /\ \E missing \in MissingKey,
          fails \in SUBSET (1..Len(InstalledIn(InstalledPackages, name))) :
       LET origContextName == ActiveContext
           installedPackages == InstalledIn(InstalledPackages, name)
           there == SwitchedBin(InstalledPackages, origContextName, name, binDir,
                                missing)
           st == ForceUninstallFrom(installedPackages, name, 1,
                    [installed |-> InstalledPackages, containers |-> containers,
                     bin |-> there, failed |-> FALSE],
                    fails, missing)
           back == SwitchedBin(st.installed, name, origContextName, st.bin, missing)
       IN
       IF name = origContextName
       THEN /\ last' = [op |-> "ContextDelete", name |-> name, force |-> force,
                        err |-> "ContextNoDeleteActive", failed |-> FALSE]
            /\ UNCHANGED <<Contexts, InstalledPackages, disk, containers, binDir>>
       ELSE IF name \notin DOMAIN Contexts
       THEN /\ last' = [op |-> "ContextDelete", name |-> name, force |-> force,
                        err |-> "ContextNotExist", failed |-> FALSE]
            /\ UNCHANGED <<Contexts, InstalledPackages, disk, containers, binDir>>
       ELSE IF installedPackages # <<>> /\ ~force
       THEN /\ binDir' = SwitchedBin(InstalledPackages, name, origContextName,
                                     there, missing)
            /\ disk' = Save(disk, Contexts, origContextName, InstalledPackages)
            /\ last' = [op |-> "ContextDelete", name |-> name, force |-> force,
                        err |-> "PackagesInstalled", failed |-> FALSE]
            /\ UNCHANGED <<Contexts, InstalledPackages, containers>>
       ELSE /\ InstalledPackages' = st.installed
            /\ containers' = st.containers
            /\ binDir' = back
            /\ Contexts' = MapDel(Contexts, name)
            /\ disk' = Save(disk, MapDel(Contexts, name), origContextName,
                            st.installed)
            /\ last' = [op |-> "ContextDelete", name |-> name, force |-> force,
                        err |-> "", failed |-> st.failed]
    /\ start' = NoStart
    /\ UNCHANGED <<ActiveContext, pc, plan, done>>

\* the requests of a caller who installs a service
DeleteRequests == {<<Dep("pkgA", <<>>)>>}

NextDelete ==
    \/ \E pkgs \in DeleteRequests : Install(pkgs)
    \/ InstallItem
    \/ AddContext("c1", PreprodContext)
    \/ /\ ContextOf(Contexts, defaultContextName).Network = ""
       /\ UpdateContext(defaultContextName, PreprodContext)
    \/ \E n \in ContextNames : SetActiveContext(n)
    \/ \E n \in ContextNames, force \in BOOLEAN : ContextDelete(n, force)

\* packages installed in two contexts and contexts deleted with the command
SpecDelete == Init /\ [][NextDelete]_vars

\* the requests of a caller who installs a package with a service and a binary
BinaryRequests ==
    {<<Dep("pkgF", <<>>)>>, <<Dep("pkgF", <<C("<", <<1, 1, 0>>)>>)>>}

NextBinaries ==
    \/ \E pkgs \in BinaryRequests : Install(pkgs)
    \/ InstallItem
    \/ Upgrade(<<Dep("pkgF", <<>>)>>)
    \/ UpgradeItem
    \/ \E n \in UninstallNames : Uninstall(n, FALSE)
    \/ AddContext("c1", PreprodContext)
    \/ /\ ContextOf(Contexts, defaultContextName).Network = ""
       /\ UpdateContext(defaultContextName, PreprodContext)
    \/ \E n \in ContextNames : SetActiveContext(n)

\* Install, Upgrade, Uninstall and SetActiveContext with pkgF, which has a
\* container and a binary, in two contexts; nothing else writes to the bin
\* directory
SpecBinaries == Init /\ [][NextBinaries]_vars

\* the longest list of install steps of a manifest handed to Package.install
MaxInputSteps == 2

\* a condition on the package's short name
NameIs(name) == Eq("Package", "ShortName", name)

\* a step with a docker and a file part, and a step with neither
BothStep == [NodeStep EXCEPT !.File = TRUE, !.Filename = "f"]

NeitherStep == [FileStep("f", FALSE) EXCEPT !.File = FALSE]

\* the install steps a manifest may hold: a service, a pull-only image, a
\* file, steps that break the one-method rule, and steps whose condition is
\* false for the package
StepInputs ==
    {NodeStep, DockerStep("img", <<>>, TRUE), FileStep("f", FALSE),
     BothStep, NeitherStep,
     WithCondition(NeitherStep, NameIs("other")),
     WithCondition(NodeStep, NameIs("other"))}

\* the manifests handed to Package.install
PackageInputs ==
    {WithHookScripts(Package("pkgX", <<1, 0, 0>>, <<>>, steps)) :
        steps \in SeqsUpTo(StepInputs, MaxInputSteps)}

\* the containers the runtime may hold when pkg is installed into context
ContainerInputs(pkg, context) ==
    SUBSET {NewContainer(ContainerFullName(pkg, context, n),
                         <<PortSpec("H1", "3001")>>) : n \in {"node", "img"}}

\* the arguments of a call of Package.install in the default context
InitPackageInstall ==
    /\ disk = EmptyDisk
    /\ Contexts = Load(EmptyDisk).Contexts
    /\ ActiveContext = Load(EmptyDisk).ActiveContext
    /\ InstalledPackages = Load(EmptyDisk).InstalledPackages
    /\ containers = {}
    /\ binDir = [f \in {"binB"} |-> NoEntry]
    /\ pc = "idle"
    /\ plan = <<>>
    /\ done = <<>>
    /\ start = NoStart
    /\ \E pkg \in PackageInputs, runHooks \in BOOLEAN :
          \E cs \in ContainerInputs(pkg, defaultContextName),
             failAt \in 0..Len(pkg.InstallSteps) :
             last = [op |-> "input", err |-> "", pkg |-> pkg, cs |-> cs,
                     runHooks |-> runHooks, failAt |-> failAt]

\* the call of Package.install on the arguments, without remembered ports
CallPackageInstall ==
    /\ last.op = "input"
    /\ LET ret == PackageInstall(last.pkg, defaultContextName, EmptyMap, last.cs,
                                 [cp \in ContainerPorts |-> "H1"], last.failAt,
                                 last.runHooks)
       IN  last' = [op |-> "Package.install", err |-> ret.err, pkg |-> last.pkg,
                    cs |-> last.cs, runHooks |-> last.runHooks,
                    failAt |-> last.failAt, ret |-> ret]
    /\ UNCHANGED <<Contexts, ActiveContext, InstalledPackages, disk, containers,
                   binDir, pc, plan, done, start>>

NextPackageInstall == CallPackageInstall

\* Package.install applied to manifests with every combination of steps
SpecPackageInstall == InitPackageInstall /\ [][NextPackageInstall]_vars

\* port specs a manifest may give a docker step: with or without a host port,
\* without a container port, and a range
PortSpecInputs ==
    {PortSpec(h, c) : h \in HostPorts \cup {""},
                      c \in ContainerPorts \cup PortRanges \cup {""}}

\* what the port registry may remember for a service: nothing, an empty host
\* port or a host port for a container port
RegisteredInputs ==
    {EmptyMap} \cup {MapSet(EmptyMap, c, h) : c \in ContainerPorts,
                                             h \in HostPorts \cup {""}}

\* the allocations of the earlier port specs of the same step
AllocatedInputs ==
    {EmptyMap} \cup {MapSet(EmptyMap, c, h) : c \in ContainerPorts, h \in HostPorts}

\* the arguments of a call of ensureHostPortMapping
InitPorts ==
    /\ disk = EmptyDisk
    /\ Contexts = Load(EmptyDisk).Contexts
    /\ ActiveContext = Load(EmptyDisk).ActiveContext
    /\ InstalledPackages = Load(EmptyDisk).InstalledPackages
    /\ containers = {}
    /\ binDir = [f \in {"binB"} |-> NoEntry]
    /\ pc = "idle"
    /\ plan = <<>>
    /\ done = <<>>
    /\ start = NoStart
    /\ \E rawPort \in PortSpecInputs, registered \in RegisteredInputs,
          allocated \in AllocatedInputs, eph \in [ContainerPorts -> HostPorts] :
          last = [op |-> "input", err |-> "", rawPort |-> rawPort,
                  registered |-> registered, allocated |-> allocated,
                  eph |-> eph]

\* the call of ensureHostPortMapping on the arguments
CallEnsureHostPortMapping ==
    /\ last.op = "input"
    /\ LET ret == ensureHostPortMapping(last.rawPort, last.registered,
                                        last.allocated, last.eph)
       IN  last' = [op |-> "ensureHostPortMapping", err |-> ret.err,
                    rawPort |-> last.rawPort, registered |-> last.registered,
                    allocated |-> last.allocated, eph |-> last.eph,
                    ret |-> ret]
    /\ UNCHANGED <<Contexts, ActiveContext, InstalledPackages, disk, containers,
                   binDir, pc, plan, done, start>>

NextPorts == CallEnsureHostPortMapping

\* ensureHostPortMapping applied to every port spec, remembered port and
\* earlier allocation
SpecPorts == InitPorts /\ [][NextPorts]_vars

\* the package with a binary installed, upgraded and uninstalled in two
\* contexts, the caller switching between them, while the user may put a file
\* or a symlink into the bin directory
SpecActivation == Init /\ [][NextActivation]_vars


(***************************************************************************)
(* Properties.                                                             *)
(***************************************************************************)
\* C1: in every reachable state the installed-package list holds at most one
\* record per (context, package name)
C1_OneRecordPerName ==
    \A i, j \in DOMAIN InstalledPackages :
        (/\ InstalledPackages[i].Context = InstalledPackages[j].Context
         /\ InstalledPackages[i].Package.Name = InstalledPackages[j].Package.Name)
            => i = j


\* the installed packages the resolver of the last operation was given
ActiveList == InstalledIn(InstalledPackages, ActiveContext)

\* the resolver of the last Install or Upgrade was built and ran
ResolverRan == last.err \notin {"ContextInstallNoNetwork", "MalformedConstraint"}

NameInstalled(name) == \E k \in DOMAIN ActiveList : ActiveList[k].Package.Name = name

\* available packages called name whose version satisfies the version spec
SatisfyingSpec(name, spec) ==
    {i \in DOMAIN availablePkgs :
        /\ availablePkgs[i].Name = name
        /\ \A c \in Range(spec) : ConstraintCheck(c, availablePkgs[i].Version)}

\* ... and every constraint an installed package of the active context
\* declares on name
Satisfying(name, spec) ==
    {i \in SatisfyingSpec(name, spec) :
        \A k \in DOMAIN ActiveList :
            \A d \in Range(ActiveList[k].Package.Dependencies) :
                d.name = name =>
                    \A c \in Range(d.spec) :
                        ConstraintCheck(c, availablePkgs[i].Version)}

\* p is a package of the index set S and none of S has a greater version
IsGreatest(p, S) ==
    \E i \in S :
        /\ availablePkgs[i] = p
        /\ \A j \in S : VersionCompare(availablePkgs[j].Version, p.Version) <= 0

\* position in the install plan of the entry selected for the i-th spec
SelectedPos(i) ==
    CHOOSE k \in DOMAIN plan :
        /\ plan[k].Selected
        /\ Cardinality({q \in 1..k : plan[q].Selected}) = i

\* C2: Resolver.Install and Resolver.Upgrade choose, for a spec `name
\* versionSpec`, the greatest available package of that name that satisfies
\* the version spec and every constraint installed packages of the active
\* context declare on the name; when there is none Install fails with
\* NoAvailablePackage and Upgrade with NoPackageAvailableForUpgrade
C2_ChosenIsGreatest ==
    /\ (last.op = "Install" /\ ResolverRan) =>
          \A i \in DOMAIN last.pkgs :
              LET S == Satisfying(last.pkgs[i].name, last.pkgs[i].spec)
              IN  /\ last.err = "" =>
                        IsGreatest(plan[SelectedPos(i)].Install, S)
                  /\ last.at = i =>
                        (last.err = "NoAvailablePackage"
                            <=> (~NameInstalled(last.pkgs[i].name) /\ S = {}))
                  /\ (last.err # "" /\ i < last.at) => S # {}
    /\ (last.op = "Upgrade" /\ ResolverRan) =>
          \A i \in DOMAIN last.pkgs :
              LET S == Satisfying(last.pkgs[i].name, last.pkgs[i].spec)
              IN  /\ last.err = "" =>
                        \E k \in DOMAIN plan :
                            /\ i = 1 => k = 1
                            /\ plan[k].Installed.Package.Name = last.pkgs[i].name
                            /\ IsGreatest(plan[k].Upgrade, S)
                  /\ (last.at = i /\ NameInstalled(last.pkgs[i].name) /\ S = {})
                        => last.err = "NoPackageAvailableForUpgrade"

\* C2 witness: Install pkgA chose 1.0.3 although 2.1.3 is available, because
\* an installed package constrains pkgA
C2_Witness ==
    /\ last.op = "Install" /\ last.err = ""
    /\ last.pkgs = <<Dep("pkgA", <<>>)>>
    /\ plan[1].Install.Version = <<1, 0, 3>>


\* an installed package of the active context has the dependency's name and a
\* version satisfying its constraint
DepSatisfied(d) ==
    \E k \in DOMAIN ActiveList :
        /\ ActiveList[k].Package.Name = d.name
        /\ \A c \in Range(d.spec) : ConstraintCheck(c, ActiveList[k].Package.Version)

\* positions of the install plan that belong to the i-th spec, the selected
\* entry excluded
GroupOf(i) ==
    {k \in DOMAIN plan :
        /\ k < SelectedPos(i)
        /\ i > 1 => k > SelectedPos(i - 1)}

\* the package Resolver.Install chooses for the spec, when there is one
ChosenFor(spec) ==
    LET S == Satisfying(spec.name, spec.spec)
    IN  availablePkgs[CHOOSE j \in S :
            \A j2 \in S : VersionCompare(availablePkgs[j2].Version,
                                         availablePkgs[j].Version) <= 0]

\* the dependency rule of Resolver.Install, for a given reading Sat of "the
\* available packages of that name satisfying the constraint"
DependencyPlan(Sat(_, _)) ==
    (last.op = "Install" /\ ResolverRan) =>
        \A i \in DOMAIN last.pkgs :
            /\ last.err = "" =>
                  \A d \in Range(plan[SelectedPos(i)].Install.Dependencies) :
                      LET entries == {k \in GroupOf(i) : plan[k].Install.Name = d.name}
                      IN  IF DepSatisfied(d) THEN entries = {}
                          ELSE /\ Cardinality(entries) = 1
                               /\ \A k \in entries :
                                     /\ ~plan[k].Selected
                                     /\ IsGreatest(plan[k].Install, Sat(d.name, d.spec))
            /\ (/\ last.at = i
                /\ ~NameInstalled(last.pkgs[i].name)
                /\ Satisfying(last.pkgs[i].name, last.pkgs[i].spec) # {}) =>
                  (last.err = "NoAvailablePackageDependency"
                      <=> \E d \in Range(ChosenFor(last.pkgs[i]).Dependencies) :
                              ~DepSatisfied(d) /\ Sat(d.name, d.spec) = {})

WouldBreakDeps ==
    LET before == InstalledIn(last.pre.mem, ActiveContext)
    IN  \E k \in DOMAIN before :
            \E d \in Range(before[k].Package.Dependencies) :
                /\ d.name = last.name
                /\ \A c \in Range(d.spec) :
                      ConstraintCheck(c, last.pkg.Package.Version)

\* C4: Uninstall(x, force = false) of an installed x fails with
\* UninstallWouldBreakDeps, leaving the installed-package list, the containers
\* and the files unchanged, exactly when an installed package depends on x
\* with an empty or satisfied constraint; otherwise the uninstall proceeds
C4_WouldBreakDepsExactly ==
    (last.op = "Uninstall" /\ last.found /\ ~last.force) =>
        /\ WouldBreakDeps <=>
              /\ last.err = "UninstallWouldBreakDeps"
              /\ InstalledPackages = last.pre.mem
              /\ containers = last.cs
              /\ binDir = last.bin
        /\ ~WouldBreakDeps => last.err \in {"", "StepFailed"}

\* C5: Install(x) directly followed by a successful Uninstall(x) leaves the
\* installed-package list and the port registry as they were before the Install
C5_InstallUninstallRoundTrip ==
    (last.op = "Uninstall" /\ last.err = "" /\ start.op = "Install") =>
        /\ InstalledPackages = start.mem
        /\ PortRegistryOf(Contexts) = start.reg

\* C6: when the install, upgrade or uninstall of one package returns an error,
\* the installed-package list and the port registry, in memory and on disk,
\* are what they were before that package's action started
C6_FailedActionChangesNothing ==
    (last.op \in {"InstallItem", "UpgradeItem", "Uninstall"} /\ last.err # "") =>
        Snapshot = last.pre

\* C9: the port registry of a context has entries only for packages that are
\* installed in that context
C9_RegistryOnlyForInstalled ==
    \A c \in DOMAIN Contexts :
        \A n \in DOMAIN Contexts[c].PortRegistry :
            \E k \in DOMAIN InstalledPackages :
                /\ InstalledPackages[k].Context = c
                /\ InstalledPackages[k].Package.Name = n


\* the process is inside the loop of an Install, or stopped inside it
InstallInProgress ==
    /\ start.op = "Install"
    /\ pc = "install" \/ (last.op = "Restart" /\ last.during = "install")

\* C7: while Install executes its plan, and when the process stops after k
\* packages of the plan have completed, the persisted installed-package list
\* is the list persisted before the Install followed by the records of those
\* k packages in plan order
C7_PersistedAfterEachPackage ==
    InstallInProgress =>
        disk.InstalledPackages =
            start.dmem \o [i \in DOMAIN done |->
                              NewInstalledPackage(done[i].Install, start.context)]

\* the package has a service svc with a port spec that names container port
\* cp and no host port
ExposesWithoutHostPort(pkg, svc, cp) ==
    \E st \in Range(ServiceSteps(pkg)) :
        /\ st.ContainerName = svc
        /\ \E p \in Range(st.Ports) : p.containerPort = cp /\ p.hostPort = ""

C10_ActiveContextExists ==
    /\ ActiveContext \in DOMAIN Contexts
    /\ (last.op = "DeleteContext" /\ last.name = last.pre[2]) =>
          /\ last.err = "ContextNoDeleteActive"
          /\ <<Contexts, ActiveContext, InstalledPackages, disk>> = last.pre

\* C10 witness: c1 was added and made active, and deleting it was refused
C10_Witness ==
    /\ last.op = "DeleteContext" /\ last.name = "c1"
    /\ ActiveContext = "c1"
    /\ defaultContextName \in DOMAIN Contexts

\* the step is a call of UpdateContext for a context whose network is set,
\* naming another network
UpdateNamesOtherNetwork ==
    /\ last'.op = "UpdateContext"
    /\ last'.name \in DOMAIN Contexts
    /\ Contexts[last'.name].Network # ""
    /\ last'.network # Contexts[last'.name].Network

\* no step changes the network name of a context whose network is set
NetworkNameKept ==
    \A c \in DOMAIN Contexts \cap DOMAIN Contexts' :
        Contexts[c].Network # "" => Contexts'[c].Network = Contexts[c].Network

\* no step changes the network magic of a context whose network is set
NetworkMagicKept ==
    \A c \in DOMAIN Contexts \cap DOMAIN Contexts' :
        Contexts[c].Network # "" => Contexts'[c].NetworkMagic = Contexts[c].NetworkMagic

\* C11: once a context's network is set, UpdateContext naming a different
\* network fails with ContextNoChangeNetwork and changes nothing, and no step
\* changes the context's network name or its network magic
C11_NetworkImmutable ==
    [][/\ UpdateNamesOtherNetwork
            => /\ last'.err = "ContextNoChangeNetwork"
               /\ UNCHANGED <<Contexts, ActiveContext, InstalledPackages, disk,
                              containers, binDir>>
       /\ NetworkNameKept
       /\ NetworkMagicKept]_vars

\* the records of installed whose context is not the active one, in list order
OtherContextRecords(installed) ==
    SelectSeq(installed, LAMBDA r : r.Context # ActiveContext)

\* an installed package of the active context is called name
InstalledInActive(name) ==
    \E k \in DOMAIN InstalledPackages :
        /\ InstalledPackages[k].Context = ActiveContext
        /\ InstalledPackages[k].Package.Name = name

\* available packages called name whose version satisfies the version spec and
\* every constraint that a record whose context is the active one declares on
\* name
SatisfyingActive(name, spec) ==
    {i \in SatisfyingSpec(name, spec) :
        \A k \in DOMAIN InstalledPackages :
            InstalledPackages[k].Context = ActiveContext =>
                \A d \in Range(InstalledPackages[k].Package.Dependencies) :
                    d.name = name =>
                        \A c \in Range(d.spec) :
                            ConstraintCheck(c, availablePkgs[i].Version)}

\* the last Install, Upgrade or Uninstall looked at the active context only:
\* Install is refused as already installed only for a name installed in the
\* active context and chooses by the constraints of the active context's
\* records alone, Upgrade starts from a record of the active context, and
\* Uninstall finds and removes a record of the active context
ResolvedInActiveContext ==
    /\ (last.op = "Install" /\ ResolverRan) =>
          \A i \in DOMAIN last.pkgs :
              /\ (last.at = i /\ last.err = "PackageAlreadyInstalled")
                    <=> (last.at = i /\ InstalledInActive(last.pkgs[i].name))
              /\ last.err = "" =>
                    IsGreatest(plan[SelectedPos(i)].Install,
                               SatisfyingActive(last.pkgs[i].name, last.pkgs[i].spec))
    /\ (last.op = "Upgrade" /\ ResolverRan) =>
          /\ last.err = "" =>
                /\ plan[1].Installed.Context = ActiveContext
                /\ IsGreatest(plan[1].Upgrade,
                              SatisfyingActive(last.pkgs[1].name, last.pkgs[1].spec))
          /\ (last.at = 1 /\ ~InstalledInActive(last.pkgs[1].name))
                => last.err = "PackageNotInstalled"
    /\ last.op = "Uninstall" =>
          /\ last.found <=> \E k \in DOMAIN last.pre.mem :
                                /\ last.pre.mem[k].Context = ActiveContext
                                /\ last.pre.mem[k].Package.Name = last.name
          /\ last.found => last.pkg.Context = ActiveContext

\* C12: Install, Upgrade and Uninstall leave the records of every other
\* context unchanged, are not blocked by a package name installed in another
\* context, and take no constraint from packages installed in other contexts
C12_ActiveContextOnly ==
    [][last'.op \in {"Install", "InstallItem", "Upgrade", "UpgradeItem", "Uninstall"}
          => /\ ActiveContext' = ActiveContext
             /\ OtherContextRecords(InstalledPackages')
                    = OtherContextRecords(InstalledPackages)
             /\ OtherContextRecords(disk'.InstalledPackages)
                    = OtherContextRecords(disk.InstalledPackages)
             /\ ResolvedInActiveContext']_vars

\* C12 witness: Install pkgA in the active context chose 2.1.3 while another
\* context holds pkgA and a pkgB that requires pkgA < 2.0.0
C12_Witness ==
    /\ last.op = "Install" /\ last.err = ""
    /\ last.pkgs = <<Dep("pkgA", <<>>)>>
    /\ plan[1].Install.Version = <<2, 1, 3>>
    /\ \E k \in DOMAIN InstalledPackages :
          /\ InstalledPackages[k].Context # ActiveContext
          /\ InstalledPackages[k].Package.Name = "pkgA"
    /\ \E k \in DOMAIN InstalledPackages :
          /\ InstalledPackages[k].Context # ActiveContext
          /\ InstalledPackages[k].Package.Name = "pkgB"

\* the indices of the steps of pkg that a verb evaluating conditions against
\* tmplVars does not skip
NonSkipped(pkg, tmplVars) ==
    {i \in DOMAIN pkg.InstallSteps :
        \/ pkg.InstallSteps[i].Condition = NoCondition
        \/ EvaluateCondition(pkg.InstallSteps[i].Condition, tmplVars, "false") = "true"}

\* steps is the beginning of the ascending enumeration of the set N, and the
\* whole of it when the verb returned no error
AscendingRun(steps, N, err) ==
    /\ \A a, b \in DOMAIN steps : a < b => steps[a] < steps[b]
    /\ Range(steps) \subseteq N
    /\ \A j \in Range(steps) : \A k \in N : k < j => k \in Range(steps)
    /\ err = "" => Range(steps) = N

\* steps is the beginning of the descending enumeration of the set N, and the
\* whole of it when the verb returned no error
DescendingRun(steps, N, err) ==
    /\ \A a, b \in DOMAIN steps : a < b => steps[a] > steps[b]
    /\ Range(steps) \subseteq N
    /\ \A j \in Range(steps) : \A k \in N : k > j => k \in Range(steps)
    /\ err = "" => Range(steps) = N

\* C13: Package.install dispatches the steps it does not skip in ascending
\* manifest order and Package.uninstall in descending order, each step only
\* after the steps before it in that order, and no step after an error
C13_StepOrder ==
    /\ last.op = "InstallItem" =>
          AscendingRun(DispatchedSteps(last.events),
                       NonSkipped(last.pkg, InstallTemplateVars(last.pkg, ActiveContext)),
                       last.err)
    /\ (last.op = "Uninstall" /\ last.events # <<>>) =>
          DescendingRun(DispatchedSteps(last.events),
                        NonSkipped(last.pkg.Package, ManagerTemplateVars(ActiveContext)),
                        last.err)
    /\ (last.op = "UpgradeItem" /\ Len(last.phases) >= 3) =>
          /\ DescendingRun(DispatchedSteps(last.uninstall),
                           NonSkipped(last.old.Package,
                                      ManagerTemplateVars(ActiveContext)),
                           "")
          /\ AscendingRun(DispatchedSteps(last.install),
                          NonSkipped(last.pkg, InstallTemplateVars(last.pkg, ActiveContext)),
                          last.err)

\* C13 witness: pkgC, installed with its steps 1 and 2, has been uninstalled
\* with step 2 dispatched before step 1
C13_Witness ==
    /\ last.op = "Uninstall" /\ last.err = ""
    /\ last.name = "pkgC"
    /\ DispatchedSteps(last.events) = <<2, 1>>

\* the indices of the steps Package.install dispatches for pkg in context
InstallDispatched(pkg, context) ==
    Range(DispatchedSteps(
        PackageInstall(pkg, context, EmptyMap, {},
                       [cp \in ContainerPorts |-> "H1"], 0, TRUE).events))

\* the indices of the steps Package.activate dispatches
ActivateDispatched(pkg, context, missing) ==
    Range(DispatchedSteps(ActivateFrom(pkg, context, 1, binDir, missing, <<>>).events))

\* the indices of the steps Package.deactivate dispatches
DeactivateDispatched(pkg, context, missing) ==
    Range(DispatchedSteps(DeactivateFrom(pkg, context, 1, binDir, missing, <<>>).events))

\* C14: for an installed package, uninstall, activate and deactivate dispatch
\* exactly the steps that install dispatched, no condition failing to evaluate
C14_SameConditionLogic ==
    /\ (last.op = "Uninstall" /\ last.found
            /\ last.err \notin {"MalformedConstraint", "UninstallWouldBreakDeps"}) =>
          /\ last.err # "InstallStepCondition"
          /\ last.err = "" =>
                Range(DispatchedSteps(last.events))
                    = InstallDispatched(last.pkg.Package, last.pkg.Context)
    /\ \A k \in DOMAIN InstalledPackages :
          InstalledPackages[k].Context = ActiveContext =>
              \A missing \in MissingKey :
                  LET pkg == InstalledPackages[k].Package
                  IN  /\ ActivateDispatched(pkg, ActiveContext, missing)
                            = InstallDispatched(pkg, ActiveContext)
                      /\ DeactivateDispatched(pkg, ActiveContext, missing)
                            = InstallDispatched(pkg, ActiveContext)

\* C15: a plan returned by Resolver.Install has one selected entry per
\* requested spec, in request order and named as the spec, the plan ends with
\* a selected entry, and the entries before the selected entry of a group are
\* dependencies of that package with Selected = false
C15_PlanGroups ==
    (last.op = "Install" /\ last.err = "") =>
        /\ Cardinality({k \in DOMAIN plan : plan[k].Selected}) = Len(last.pkgs)
        /\ plan[Len(plan)].Selected
        /\ \A i \in DOMAIN last.pkgs :
              /\ plan[SelectedPos(i)].Install.Name = last.pkgs[i].name
              /\ \A k \in GroupOf(i) :
                    /\ ~plan[k].Selected
                    /\ \E d \in Range(plan[SelectedPos(i)].Install.Dependencies) :
                          d.name = plan[k].Install.Name

\* C15 witness: Install pkgA pkgC returned the groups [pkgA] and [pkgA, pkgC]
C15_Witness ==
    /\ last.op = "Install" /\ last.err = ""
    /\ last.pkgs = <<Dep("pkgA", <<>>), Dep("pkgC", <<>>)>>
    /\ Len(plan) = 3
    /\ plan[1].Selected /\ ~plan[2].Selected /\ plan[3].Selected
    /\ plan[3].Install.Name = "pkgC"

\* C16: in a plan returned by Resolver.Upgrade, the entry of every dependency
\* of a requested package precedes the entry of that requested package
C16_UpgradeDepsFirst ==
    (last.op = "Upgrade" /\ last.err = "") =>
        \A q, k \in DOMAIN plan :
            (/\ \E i \in DOMAIN last.pkgs : last.pkgs[i].name = plan[q].Upgrade.Name
             /\ \E d \in Range(plan[q].Upgrade.Dependencies) :
                   d.name = plan[k].Upgrade.Name)
                => k < q

\* what a verb did that an upgrade must not do: remove an image, a cache or a
\* data directory, or run a hook script
ForbiddenInUpgrade ==
    {"removeImage", "removeCacheDir", "removeDataDir", "preInstallScript",
     "postInstallScript", "preUninstallScript", "postUninstallScript"}

UpgradeFollowsInstall ==
    /\ last.op = "InstallItem" /\ last.err = "" /\ plan = <<>>
    /\ start.op = "Install"
    /\ last'.op = "Upgrade" /\ last'.pkgs = start.pkgs

\* C18: Upgrade(x) right after a successful Install(x) fails with
\* NoPackageAvailableForUpgrade and changes neither the installed-package list
\* nor any container
C18_UpgradeAfterInstall ==
    [][UpgradeFollowsInstall
          => /\ last'.err = "NoPackageAvailableForUpgrade"
             /\ UNCHANGED <<InstalledPackages, disk, containers, binDir>>]_vars

\* the step is an Install, in a context with a network, whose i-th spec names
\* a package installed in the active context
InstallNamesInstalled(i) ==
    /\ last'.op = "Install"
    /\ ContextOf(Contexts, ActiveContext).Network # ""
    /\ i \in DOMAIN last'.pkgs
    /\ InstalledInActive(last'.pkgs[i].name)

\* C19: Install of a spec whose package name is installed in the active
\* context fails, with PackageAlreadyInstalled when it is the first spec of
\* the request, before any package is installed and leaving all state unchanged
C19_AlreadyInstalled ==
    [][/\ InstallNamesInstalled(1) => last'.err = "PackageAlreadyInstalled"
       /\ (\E i \in 1..2 : InstallNamesInstalled(i))
             => /\ last'.err # ""
                /\ pc' = "idle"
                /\ UNCHANGED <<Contexts, ActiveContext, InstalledPackages, disk,
                               containers, binDir>>]_vars

\* C20: Install while the active context has an empty network returns
\* ContextInstallNoNetwork, whatever the resolver would have said: nothing is
\* planned or installed, no container or file is created, no state is written
C20_InstallNeedsNetwork ==
    [][(last'.op = "Install" /\ ContextOf(Contexts, ActiveContext).Network = "")
          => /\ last'.err = "ContextInstallNoNetwork"
             /\ pc' = "idle" /\ plan' = <<>>
             /\ UNCHANGED <<Contexts, ActiveContext, InstalledPackages, disk,
                            containers, binDir>>]_vars

\* C20 witness: Install of pkgZ, which no registry entry provides, was refused
\* for the missing network
C20_Witness ==
    /\ last.op = "Install" /\ last.err = "ContextInstallNoNetwork"
    /\ last.pkgs = <<Dep("pkgZ", <<>>)>>
    /\ ContextOf(Contexts, ActiveContext).Network = ""

\* the record of pkg in context is in the list
Recorded(installed, pkg, context) ==
    \E k \in DOMAIN installed :
        installed[k].Package = pkg /\ installed[k].Context = context

\* C21: a package that fails to activate or deactivate does not abort Install,
\* Upgrade, Uninstall or SetActiveContext: no operation returns the activation
\* error, the installed (upgraded) package is recorded and persisted and the
\* plan goes on, the uninstalled package is removed from the persisted list
\* when its uninstall succeeds, and the context switch is made and persisted
C21_ActivationNeverAborts ==
    /\ last.err # "WillNotOverwrite"
    /\ (last.op = "InstallItem" /\ last.err = "" /\ last.activate # "") =>
          /\ Recorded(InstalledPackages, last.pkg, ActiveContext)
          /\ Recorded(disk.InstalledPackages, last.pkg, ActiveContext)
          /\ plan # <<>> => pc = "install"
    /\ (last.op = "UpgradeItem" /\ Len(last.phases) = 5) =>
          /\ last.err = ""
          /\ Recorded(InstalledPackages, last.pkg, ActiveContext)
          /\ Recorded(disk.InstalledPackages, last.pkg, ActiveContext)
          /\ plan # <<>> => pc = "upgrade"
    /\ (last.op = "Uninstall" /\ last.err = "") =>
          /\ ~Recorded(InstalledPackages, last.pkg.Package, ActiveContext)
          /\ ~Recorded(disk.InstalledPackages, last.pkg.Package, ActiveContext)
    /\ (last.op = "SetActiveContext" /\ last.name \in DOMAIN Contexts) =>
          /\ last.err = ""
          /\ ActiveContext = last.name
          /\ disk.ActiveContext = last.name

\* C21 witness: pkgB was installed and recorded although its activation found
\* a file of the user at bin/binB
C21_Witness ==
    /\ last.op = "InstallItem" /\ last.err = ""
    /\ last.pkg.Name = "pkgB"
    /\ last.activate = "WillNotOverwrite"
    /\ binDir["binB"] = RegularFile

\* the unconditional binary file steps of pkg
BinarySteps(pkg) ==
    {i \in DOMAIN pkg.InstallSteps :
        /\ pkg.InstallSteps[i].File /\ ~pkg.InstallSteps[i].Docker
        /\ pkg.InstallSteps[i].Binary
        /\ pkg.InstallSteps[i].Condition = NoCondition}

\* C22: when a package with a binary file step has been installed, a
\* non-symlink entry at the bin entry of the step is left as it was and
\* activate has failed with the will-not-overwrite error, while an existing
\* symlink has been replaced by the symlink to the package's file
C22_NoOverwrite ==
    /\ (last.op = "InstallItem" /\ last.err = "") =>
          \A i \in BinarySteps(last.pkg) :
              LET f == last.pkg.InstallSteps[i].Filename
              IN  /\ last.bin[f].kind = "regular" =>
                        /\ binDir[f] = last.bin[f]
                        /\ last.activate = "WillNotOverwrite"
                  /\ last.bin[f].kind = "symlink" =>
                        /\ binDir[f] = Symlink(last.pkg, ActiveContext)
                        /\ last.activate # "WillNotOverwrite"
                  /\ last.bin[f].kind = "absent" =>
                        binDir[f] = Symlink(last.pkg, ActiveContext)

\* C22 witness: pkgB was installed while bin/binB was a symlink to somewhere
\* else, and the symlink now points to the package's file
C22_Witness ==
    /\ last.op = "InstallItem" /\ last.err = ""
    /\ last.pkg.Name = "pkgB"
    /\ last.bin["binB"] = ForeignSymlink
    /\ binDir["binB"] = Symlink(last.pkg, ActiveContext)

\* the packages of context with an unconditional binary step named f
OwnersOf(f, context) ==
    {k \in DOMAIN InstalledPackages :
        /\ InstalledPackages[k].Context = context
        /\ \E i \in BinarySteps(InstalledPackages[k].Package) :
              InstalledPackages[k].Package.InstallSteps[i].Filename = f}

\* C23: SetActiveContext to a context that does not exist returns
\* ContextNotExist, leaves the active context and the bin directory as they
\* were and persists no other active context; to an existing context it makes that context the
\* active one in memory and on disk, and, when no package failed, the bin
\* entries of the packages of the new context are symlinks to their files in
\* that context (they were activated after the old ones were deactivated) and
\* the entries of packages only the old context holds are gone
C23_SwitchOrder ==
    last.op = "SetActiveContext" =>
        IF last.name \notin DOMAIN Contexts
        THEN /\ last.err = "ContextNotExist"
             /\ ActiveContext = last.from
             /\ disk.ActiveContext \in {"", last.from}
             /\ binDir = last.bin
        ELSE /\ last.err = ""
             /\ ActiveContext = last.name
             /\ disk.ActiveContext = last.name
             /\ ~last.failed =>
                   \A f \in DOMAIN binDir :
                       /\ \A k \in OwnersOf(f, last.name) :
                             binDir[f] = Symlink(InstalledPackages[k].Package,
                                                 last.name)
                       /\ (OwnersOf(f, last.name) = {}
                           /\ OwnersOf(f, last.from) # {}) =>
                             binDir[f] = NoEntry

\* C23 witness: the switch left a context holding pkgB for another one without
\* it, and the symlink bin/binB of the old context is gone
C23_Witness ==
    /\ last.op = "SetActiveContext" /\ last.err = ""
    /\ last.from # last.name
    /\ ~last.failed
    /\ OwnersOf("binB", last.from) # {}
    /\ OwnersOf("binB", last.name) = {}
    /\ last.bin["binB"].kind = "symlink"
    /\ binDir["binB"] = NoEntry
    /\ disk.ActiveContext = last.name

\* C24: a process that dies inside State.Save leaves every state file with
\* either the complete content it had before or the complete content Save was
\* writing
C24_AtomicSave ==
    last.op = "UpdateContextCrash" =>
        /\ disk.Corrupt = {}
        /\ \A i \in DOMAIN StateFiles :
              disk[StateFiles[i]] \in {last.pre[StateFiles[i]],
                                       last.whole[StateFiles[i]]}

\* C25: a Load that finds no standalone port registry copies the portRegistry
\* of the contexts of contexts.yaml into it and writes port_registry.yaml, and
\* once a migration has written port_registry.yaml no later Load changes the
\* standalone registry
C25_MigrationOnce ==
    [][(last'.op = "Restart" /\ last'.err = "") =>
          /\ (~disk.Migrated /\ DOMAIN disk.PortRegistry = {}) =>
                disk'.PortRegistry = migrateLegacyPortRegistry(disk)
          /\ disk.Migrated => disk'.PortRegistry = disk.PortRegistry]_vars

\* C26: ensureHostPortMapping rejects a port spec that expands to more than one
\* mapping, returns a spec without container port as it is, and otherwise
\* returns the spec with the host port chosen by priority (the one of the
\* spec, else the non-empty remembered one, else the ephemeral one) and
\* records that port in the allocated map only when the container port has no
\* entry there
C26_HostPortPriority ==
    last.op = "ensureHostPortMapping" =>
        LET rawPort == last.rawPort
            cp == rawPort.containerPort
            chosen == IF rawPort.hostPort # "" THEN rawPort.hostPort
                      ELSE IF cp \in DOMAIN last.registered
                              /\ last.registered[cp] # ""
                      THEN last.registered[cp]
                      ELSE last.eph[cp]
        IN  IF cp \in PortRanges
            THEN /\ last.ret.err # ""
                 /\ last.ret.allocated = last.allocated
            ELSE IF cp = ""
            THEN /\ last.ret.err = ""
                 /\ last.ret.port = rawPort
                 /\ last.ret.allocated = last.allocated
            ELSE /\ last.ret.err = ""
                 /\ last.ret.port = PortSpec(chosen, cp)
                 /\ last.ret.allocated =
                        IF cp \in DOMAIN last.allocated THEN last.allocated
                        ELSE MapSet(last.allocated, cp, chosen)

\* C26 witness: the spec names no host port, H2 is remembered for its container
\* port, the ephemeral port would be H1 and an earlier spec of the step has
\* allocated H1: the spec comes back with H2 and the allocation stays
C26_Witness ==
    /\ last.op = "ensureHostPortMapping"
    /\ last.rawPort = PortSpec("", "3001")
    /\ last.registered = MapSet(EmptyMap, "3001", "H2")
    /\ last.eph["3001"] = "H1"
    /\ last.allocated = MapSet(EmptyMap, "3001", "H1")
    /\ last.ret.port = PortSpec("H2", "3001")
    /\ last.ret.allocated = last.allocated

\* the docker steps of pkg whose container exists in cs
Colliding(pkg, context, cs) ==
    {i \in DOMAIN pkg.InstallSteps :
        /\ pkg.InstallSteps[i].Docker
        /\ ContainerExists(cs, ContainerFullName(pkg, context,
                                   pkg.InstallSteps[i].ContainerName))}

\* the steps of pkg with a docker and a file part, and those with neither
BothSteps(pkg) ==
    {i \in DOMAIN pkg.InstallSteps :
        pkg.InstallSteps[i].Docker /\ pkg.InstallSteps[i].File}

NeitherSteps(pkg) ==
    {i \in DOMAIN pkg.InstallSteps :
        ~pkg.InstallSteps[i].Docker /\ ~pkg.InstallSteps[i].File}

\* C27: when the container of any docker step of the package exists,
\* Package.install fails before it creates a directory, runs a hook or
\* executes a step, and the containers are as they were; the error is
\* ContainerAlreadyExists for every package whose steps have one method each
C27_RefusesExistingContainer ==
    (/\ last.op = "Package.install"
     /\ Colliding(last.pkg, defaultContextName, last.cs) # {}) =>
        /\ last.ret.err # ""
        /\ last.ret.events = <<>>
        /\ last.ret.containers = last.cs
        /\ BothSteps(last.pkg) = {} => last.ret.err = "ContainerAlreadyExists"

\* C27 witness: the only docker step of the package is skipped by its
\* condition, its container exists, and the install is refused
C27_Witness ==
    /\ last.op = "Package.install"
    /\ last.pkg.InstallSteps = <<FileStep("f", FALSE),
                                 WithCondition(NodeStep, NameIs("other"))>>
    /\ Colliding(last.pkg, defaultContextName, last.cs) = {2}
    /\ last.failAt = 0
    /\ last.ret.err = "ContainerAlreadyExists"
    /\ last.ret.events = <<>>

\* C28: when no container of the package exists and the runtime fails no step,
\* Package.install of a package with a step that has both methods fails with
\* MultipleInstallMethods before it creates a directory, runs a hook or
\* executes a step, and the install of a package with a step that has neither
\* method fails with NoInstallMethods
C28_OneMethodPerStep ==
    (/\ last.op = "Package.install"
     /\ last.cs = {}
     /\ last.failAt = 0) =>
        /\ BothSteps(last.pkg) # {} =>
              /\ last.ret.err = "MultipleInstallMethods"
              /\ last.ret.events = <<>>
              /\ last.ret.containers = last.cs
        /\ (BothSteps(last.pkg) = {} /\ NeitherSteps(last.pkg) # {}) =>
              last.ret.err = "NoInstallMethods"

\* the records of the list that are in the active context and produce key k
Producers(installed, active, k) ==
    {i \in DOMAIN installed :
        installed[i].Context = active /\ k \in DOMAIN installed[i].Outputs}

\* C29: ContextEnv returns exactly the keys produced by the installed packages
\* of the active context, each with the value of the last record of the
\* installed-package list that is in the active context and produces it
C29_ContextEnvLaterWins ==
    last.op = "ContextEnv" =>
        /\ DOMAIN last.ret =
              UNION {DOMAIN last.installed[i].Outputs :
                        i \in {j \in DOMAIN last.installed :
                                  last.installed[j].Context = last.active}}
        /\ \A k \in DOMAIN last.ret :
              LET P == Producers(last.installed, last.active, k)
                  latest == CHOOSE i \in P : \A j \in P : j <= i
              IN  last.ret[k] = last.installed[latest].Outputs[k]

\* C29 witness: pkg-d and pkg.d, whose outputs have the same key, are installed
\* in the active context in this order, and the key has the value of pkg.d
C29_Witness ==
    /\ last.op = "ContextEnv"
    /\ Len(last.installed) >= 2
    /\ last.installed[1].Package.Name = "pkg-d"
    /\ last.installed[2].Package.Name = "pkg.d"
    /\ last.installed[1].Context = last.active
    /\ last.installed[2].Context = last.active
    /\ last.ret["PKG_D_URL"] = <<"pkg.d", <<1, 0, 0>>, last.active>>

\* the events of one pass of startService or stopService are as claimed: the
\* hook script, when the manifest has one, comes first and only once; when it
\* failed nothing else was done; otherwise exactly the docker steps that are
\* not pull-only were started (stopped), in manifest order
PassAsClaimed(visit, hook, verb) ==
    LET pkg == visit.pkg.Package
        services == {i \in DOMAIN pkg.InstallSteps :
                        pkg.InstallSteps[i].Docker /\ ~pkg.InstallSteps[i].PullOnly}
        touched == SelectSeq(visit.events, LAMBDA e : e.ev = verb)
    IN  /\ \A k \in DOMAIN visit.events :
              visit.events[k].ev = hook <=> (pkg.HookScripts /\ k = 1)
        /\ \A k \in DOMAIN visit.events : visit.events[k].ev \in {hook, verb}
        /\ visit.err = "HookFailed" => touched = <<>>
        /\ visit.err # "HookFailed" =>
              /\ {touched[k].i : k \in DOMAIN touched} = services
              /\ \A k \in DOMAIN touched : \A l \in DOMAIN touched :
                    k < l => touched[k].i < touched[l].i

Least(S) == CHOOSE x \in S : \A y \in S : x <= y

Greatest(S) == CHOOSE x \in S : \A y \in S : y <= x

\* the text t without its leading and trailing spaces
Trimmed(t) ==
    LET inked == {i \in DOMAIN t : t[i] # " "}
    IN  IF inked = {} THEN <<>> ELSE SubSeq(t, Least(inked), Greatest(inked))

\* the comma-separated pieces of t, each as the pair of its first and last position
Segments(t) ==
    {g \in (1..(Len(t) + 1)) \X (0..Len(t)) :
        /\ g[2] >= g[1] - 1
        /\ (g[1] = 1 \/ t[g[1] - 1] = ",")
        /\ (g[2] = Len(t) \/ t[g[2] + 1] = ",")
        /\ \A k \in g[1]..g[2] : t[k] # ","}

\* the piece g of t is prefixed with -
Negated(t, g) == g[2] >= g[1] /\ t[g[1]] = "-"

\* the flag the piece g of t names
FlagName(t, g) ==
    IF Negated(t, g) THEN SubSeq(t, g[1] + 1, g[2]) ELSE SubSeq(t, g[1], g[2])

\* opts has exactly the flags of the option text t, each with the value of a
\* piece that names it: true, or false when the piece is prefixed with -
OptionsAsClaimed(opts, t) ==
    /\ DOMAIN opts = {FlagName(t, g) : g \in Segments(t)}
    /\ \A f \in DOMAIN opts :
          \E g \in Segments(t) : FlagName(t, g) = f /\ opts[f] = ~Negated(t, g)

\* the positions of the characters of s that are in chars
Positions(s, chars) == {i \in DOMAIN s : s[i] \in chars}

\* C31 as stated: when some [ after the first character is followed later by
\* a ], the name is the text before it and the flags between the brackets map
\* to true, or to false when prefixed with -; otherwise the name is the text
\* before the first of the characters space < > = ~ !, or the whole string when
\* none occurs, and there are no options; the version spec is the trimmed text
\* from that first character on
C31_SplitPackageAsStated ==
    last.op = "splitPackage" =>
        LET s == last.pkg
            opens == {i \in Positions(s, {"["}) :
                         i > 1 /\ \E j \in Positions(s, {"]"}) : j > i}
            delims == Positions(s, VersionSpecChars)
        IN  /\ opens # {} =>
                  LET o == Least(opens)
                      c == Least({j \in Positions(s, {"]"}) : j > o})
                  IN  /\ last.ret.name = SubSeq(s, 1, o - 1)
                      /\ OptionsAsClaimed(last.ret.opts, SubSeq(s, o + 1, c - 1))
            /\ opens = {} =>
                  /\ last.ret.opts = EmptyMap
                  /\ last.ret.name = IF delims = {} THEN s
                                     ELSE SubSeq(s, 1, Least(delims) - 1)
            /\ last.ret.spec = IF delims = {} THEN <<>>
                               ELSE Trimmed(SubSeq(s, Least(delims), Len(s)))

\* C31: when the first [ is not the first character and the first ] comes
\* after it, the name is the text before that [ and the flags between the two
\* map to true, or to false when prefixed with -; otherwise there are no
\* options and the name is the text before the first of the characters space
\* < > = ~ ! when that is not the first character, the whole string when it is
\* or when none occurs; the version spec is the trimmed text from that first
\* character on when it is not the first character of the string, else empty
C31_SplitPackage ==
    last.op = "splitPackage" =>
        LET s == last.pkg
            opens == Positions(s, {"["})
            closes == Positions(s, {"]"})
            delims == Positions(s, VersionSpecChars)
            bracketed == /\ opens # {} /\ closes # {}
                         /\ Least(opens) > 1 /\ Least(closes) > Least(opens)
            versioned == delims # {} /\ Least(delims) > 1
        IN  /\ bracketed =>
                  /\ last.ret.name = SubSeq(s, 1, Least(opens) - 1)
                  /\ OptionsAsClaimed(last.ret.opts,
                                      SubSeq(s, Least(opens) + 1, Least(closes) - 1))
            /\ ~bracketed =>
                  /\ last.ret.opts = EmptyMap
                  /\ last.ret.name = IF versioned THEN SubSeq(s, 1, Least(delims) - 1)
                                     ELSE s
            /\ last.ret.spec = IF versioned
                               THEN Trimmed(SubSeq(s, Least(delims), Len(s)))
                               ELSE <<>>

\* C31 witness: "a[b,-c] >= 1" was split into the name a, the version spec
\* ">= 1" and the options b true and c false
C31_Witness ==
    /\ last.op = "splitPackage"
    /\ last.pkg = <<"a", "[", "b", ",", "-", "c", "]", " ", ">", "=", " ", "1">>
    /\ last.ret.name = <<"a">>
    /\ last.ret.spec = <<">", "=", " ", "1">>
    /\ last.ret.opts = (<<"b">> :> TRUE) @@ (<<"c">> :> FALSE)

\* the text t without any space
Unspaced(t) == SelectSeq(t, LAMBDA ch : ch # " ")

\* C32: a package spec with spaces between some of its tokens is split into
\* the same name, the same options and an equivalent version spec as the same
\* tokens without those spaces
C32_WhitespaceBetweenTokens ==
    (last.op = "splitPackage" /\ last.tokens # <<>>) =>
        /\ last.ret.name = last.retPlain.name
        /\ last.ret.opts = last.retPlain.opts
        /\ Unspaced(last.ret.spec) = Unspaced(last.retPlain.spec)

\* the version text is of the form NewVersion accepts
WellFormed(v) == ~NewVersion(v).err

\* a is a strictly greater version than b: at the first segment where they
\* differ the number of a is the greater
NumericallyGreater(a, b) ==
    \E k \in 1..3 :
        /\ NewVersion(a).ver[k] > NewVersion(b).ver[k]
        /\ \A j \in 1..(k - 1) : NewVersion(a).ver[j] = NewVersion(b).ver[j]

\* C33: compareVersions(v1, v2) is true exactly when v1 is a strictly greater
\* version than v2, segments compared as numbers; without -v list-available
\* prints one entry per package name, an available package of that name that
\* no available package of the name exceeds in version; with -v it prints
\* every available package
C33_ListAvailable ==
    /\ (last.op = "compareVersions" /\ WellFormed(last.v1) /\ WellFormed(last.v2)) =>
          (last.ret <=> NumericallyGreater(last.v1, last.v2))
    /\ (last.op = "list-available" /\ last.verbose) => last.printed = last.packages
    /\ (last.op = "list-available" /\ ~last.verbose) =>
          /\ {last.printed[k].Name : k \in DOMAIN last.printed}
                = {last.packages[i].Name : i \in DOMAIN last.packages}
          /\ \A k \in DOMAIN last.printed : \A l \in DOMAIN last.printed :
                last.printed[k].Name = last.printed[l].Name => k = l
          /\ \A k \in DOMAIN last.printed :
                /\ last.printed[k] \in Range(last.packages)
                /\ (\A i \in DOMAIN last.packages :
                       last.packages[i].Name = last.printed[k].Name
                          => WellFormed(last.packages[i].Version)) =>
                      \A i \in DOMAIN last.packages :
                         last.packages[i].Name = last.printed[k].Name =>
                            ~NumericallyGreater(last.packages[i].Version,
                                                last.printed[k].Version)

\* C33 witness: of pkgA 2.0.0, 10.1.1 and 1.9.0 list-available without -v
\* printed the one entry pkgA 10.1.1
C33_Witness ==
    /\ last.op = "list-available" /\ ~last.verbose
    /\ last.packages =
          <<[Name |-> "pkgA", Version |-> <<"2", ".", "0", ".", "0">>],
            [Name |-> "pkgA", Version |-> <<"1", "0", ".", "1", ".", "1">>],
            [Name |-> "pkgA", Version |-> <<"1", ".", "9", ".", "0">>]>>
    /\ last.printed = <<[Name |-> "pkgA", Version |-> <<"1", "0", ".", "1", ".", "1">>]>>

\* every dependency spec of every package of the list is satisfied by a
\* package of the list in the same context: same name, version in the constraint
DependenciesSatisfied(installed) ==
    \A i \in DOMAIN installed :
        \A d \in Range(installed[i].Package.Dependencies) :
            \E j \in DOMAIN installed :
                /\ installed[j].Context = installed[i].Context
                /\ installed[j].Package.Name = d.name
                /\ \A c \in Range(d.spec) :
                      ConstraintCheck(c, installed[j].Package.Version)

\* C34: a successful Install, Upgrade or Uninstall without force that starts
\* with every dependency spec of every installed package satisfied in its
\* context ends with every dependency spec of every installed package
\* satisfied, the dependencies of packages installed as dependencies included
C34_DependenciesSatisfied ==
    [][/\ (/\ pc \in {"install", "upgrade"} /\ pc' = "idle" /\ last'.err = ""
           /\ DependenciesSatisfied(start.mem))
          => DependenciesSatisfied(InstalledPackages')
       /\ (/\ pc = "idle" /\ last'.op = "Uninstall" /\ last'.err = ""
           /\ DependenciesSatisfied(InstalledPackages))
          => DependenciesSatisfied(InstalledPackages')]_vars

\* C35: no step of the package manager removes or replaces an entry of the bin
\* directory that is a regular file or a symlink the manager did not write;
\* in particular deactivate leaves a regular file in place
C35_ForeignEntriesKept ==
    [][last'.op # "PlaceFile" =>
          \A f \in DOMAIN binDir :
              binDir[f] \in {RegularFile, ForeignSymlink} => binDir'[f] = binDir[f]]_vars

\* C36: every installed-package record names a context of the contexts map
C36_RecordsNameContexts ==
    \A i \in DOMAIN InstalledPackages :
        InstalledPackages[i].Context \in DOMAIN Contexts

\* C37: an AddContext call that returns an error leaves the contexts map as
\* it was, in memory and on disk, so that the name is not a context afterwards
\* unless it was one before
C37_FailedAddContextChangesNothing ==
    [][(last'.op = "AddContext" /\ last'.err # "") =>
          /\ Contexts' = Contexts
          /\ disk'.Contexts = disk.Contexts]_vars

\* C38: when an Upgrade has run to its end without error, every entry of its
\* plan that replaced an installed package installed a strictly greater
\* version than the one it removed
C38_UpgradeNeverLowers ==
    (last.op = "UpgradeItem" /\ last.err = "" /\ pc = "idle") =>
        \A k \in DOMAIN done :
            ~InstalledIsEmpty(done[k].Installed) =>
                GreaterThan(done[k].Upgrade.Version,
                            done[k].Installed.Package.Version)

\* no activate or deactivate step of the last operation failed
NoActivationFailure ==
    /\ last.op = "InstallItem" /\ last.err = "" => last.activate = ""
    /\ last.op = "UpgradeItem" => last.activate = "" /\ last.deactivate = ""
    /\ last.op = "Uninstall" => last.deactivate = ""
    /\ last.op = "SetActiveContext" => ~last.failed

\* C39: between two calls, the symlinks of the bin directory are exactly those
\* of the binaries of the packages installed in the active context: every
\* such package has its symlink at the bin entry of each of its binary steps,
\* and every symlink is that of such a package
C39_ActivatedAreInstalled ==
    pc = "idle" =>
        /\ NoActivationFailure
        /\ \A f \in DOMAIN binDir :
              /\ \A k \in OwnersOf(f, ActiveContext) :
                    binDir[f] = Symlink(InstalledPackages[k].Package, ActiveContext)
              /\ binDir[f].kind = "symlink" =>
                    \E k \in OwnersOf(f, ActiveContext) :
                        binDir[f] = Symlink(InstalledPackages[k].Package,
                                            ActiveContext)

====
